---- MODULE Spec2Model ----
(***************************************************************************)
(* A model of the bulk-mutation orchestrator of astra-db-ts               *)
(* (src/src/client/collection.ts): Collection.bulkWrite, bulkWriteOrdered, *)
(* bulkWriteUnordered, buildBulkWriteCommands and addToBulkWriteResult,    *)
(* and Collection.insertMany, insertManyOrdered and insertManyUnordered,   *)
(* Collection.deleteMany, and the FindCursor that Collection.find returns  *)
(* (as its integration test, src/unnamed/part_003, exercises it), run      *)
(* against a small model of the remote service.                           *)
(*                                                                         *)
(* JavaScript runs one continuation at a time: the code between two        *)
(* `await`s is one atomic step.  Every action below is one such segment:   *)
(* the call of bulkWrite up to its first await, the resumption of one      *)
(* worker (or of the ordered loop) with the answer of its request up to    *)
(* its next await, and the resumption of `await Promise.all(workers)`.     *)
(* The remote service executes a request when its answer is delivered: the  *)
(* answer is the input of the step that resumes the requester.             *)
(*                                                                         *)
(* Optional values (`x?: T`, undefined) are sequences of length 0 or 1.    *)
(* Indices are 0-based as in the source; operations[k + 1] is element k.   *)
(***************************************************************************)
EXTENDS Integers, Sequences, FiniteSets, TLC

\* ---------------------------------------------------------------- bounds

MaxOps == 3         \* longest operation list handed to bulkWrite
MaxParallel == 2    \* largest explicit `parallel` option
MaxFaults == 1      \* faults the remote service / transport may inject per run
MaxDocs == 3        \* longest document list handed to insertMany
MaxChunk == 2       \* largest explicit `chunkSize` option
MaxStored == 3      \* most documents in the collection deleteMany runs on
MaxFound == 3       \* most documents in the collection a cursor reads
MaxPage == 2        \* most documents in one page of a find
MaxLimit == 2       \* largest limit given to a cursor
MaxRewinds == 1     \* most rewind() calls on a cursor
MaxItems == 2       \* longest array in a document handed to the path extractor
MaxCalls == 2       \* most applications of one path extractor

\* `options?.parallel ?? 8`
DefaultParallel == 8

\* `options?.chunkSize ?? 20`
DefaultChunkSize == 20

\* ------------------------------------------------------- optional values

None == <<>>
Some(v) == <<v>>

\* `o ?? d`
OrElse(o, d) == IF o = None THEN d ELSE o[1]

\* JavaScript truthiness of an optional boolean (`options?.ordered`)
TruthyBool(o) == o # None /\ o[1]

\* JavaScript truthiness of an optional document id: undefined and the number 0
\* are falsy (`if (resp.upsertedId)`)
TruthyId(o) == o # None /\ o[1] # 0

\* Document ids: numbers, of which 0 is falsy in JavaScript
Ids == {0, 1}

\* ------------------------------------------------- operation descriptors

\* AnyBulkWriteOperation: one key naming the operation, over a filter/document
\* that names one document id, with the optional upsert flag of the update kinds
Op(name, id, upsert) == [name |-> name, id |-> id, upsert |-> upsert]

\* The descriptors the operation lists are drawn from
OpDescriptors ==
    {Op("insertOne", id, None) : id \in Ids}
      \cup {Op("updateOne", 0, Some(TRUE)), Op("replaceOne", 1, Some(TRUE)),
            Op("deleteOne", 1, None)}

\* The descriptors of the runs that update with and without upsert
UpsertDescriptors ==
    {Op("updateOne", 1, None), Op("updateMany", 1, Some(FALSE)),
     Op("updateOne", 1, Some(TRUE)), Op("replaceOne", 0, Some(TRUE)),
     Op("deleteOne", 1, None)}

\* buildBulkWriteCommands with `upsert ?? true` for `upsert ?? false`
buildBulkWriteCommandsUpsertByDefault(op) ==
    IF op.name \in {"updateOne", "updateMany", "replaceOne"}
      THEN [name |-> IF op.name = "replaceOne" THEN "findOneAndReplace" ELSE op.name,
            id |-> op.id, upsert |-> Some(OrElse(op.upsert, TRUE))]
      ELSE [name |-> op.name, id |-> op.id, upsert |-> None]

\* buildBulkWriteCommands: the command sent for one descriptor
buildBulkWriteCommands(op) ==
    CASE op.name = "insertOne"  -> [name |-> "insertOne", id |-> op.id, upsert |-> None]
      [] op.name = "updateOne"  -> [name |-> "updateOne", id |-> op.id,
                                    upsert |-> Some(OrElse(op.upsert, FALSE))]
      [] op.name = "updateMany" -> [name |-> "updateMany", id |-> op.id,
                                    upsert |-> Some(OrElse(op.upsert, FALSE))]
      [] op.name = "replaceOne" -> [name |-> "findOneAndReplace", id |-> op.id,
                                    upsert |-> Some(OrElse(op.upsert, FALSE))]
      [] op.name = "deleteOne"  -> [name |-> "deleteOne", id |-> op.id, upsert |-> None]
      [] op.name = "deleteMany" -> [name |-> "deleteMany", id |-> op.id, upsert |-> None]

\* ------------------------------------------------------------- responses

\* The `status` object of a raw response; every field is optional
Status(ins, mat, mod, del, ups) ==
    [insertedIds |-> ins, matchedCount |-> mat, modifiedCount |-> mod,
     deletedCount |-> del, upsertedId |-> ups]

\* What executeCommand delivers for one request: kind "ok" is a response without
\* errors, "errors" a well-formed response that lists errors (with or without a
\* status), "timeout" the expiry of the call's timeout, "network" any other
\* transport failure (5xx, connection)
Resp(kind, status) == [kind |-> kind, status |-> status]

\* The error class executeCommand throws for a response that is not "ok"
ErrorClass(rsp) ==
    CASE rsp.kind = "errors"  -> "DataAPIResponseError"
      [] rsp.kind = "timeout" -> "DataAPITimeout"
      [] rsp.kind = "network" -> "Error"

\* Whether DataAPITimeout is a subclass of DataAPIResponseError: it is not, a
\* timeout being a failure of the transport and no response of the service
TimeoutIsResponseError == FALSE

\* `e instanceof DataAPIResponseError`
IsDataAPIResponseError(cls) ==
    \/ cls = "DataAPIResponseError"
    \/ cls = "DataAPITimeout" /\ TimeoutIsResponseError

\* The remote service inserting docs[k], docs[k + 1], ... into the collection
\* st.coll: a document whose id is in the collection is refused, which ends an
\* ordered insertion and is skipped by an unordered one
RECURSIVE InsertDocs(_, _, _, _)
InsertDocs(docs, k, ordered, st) ==
    IF k > Len(docs)
      THEN st
      ELSE IF docs[k] \in st.coll
        THEN IF ordered
               THEN [st EXCEPT !.failed = TRUE]
               ELSE InsertDocs(docs, k + 1, ordered, [st EXCEPT !.failed = TRUE])
        ELSE InsertDocs(docs, k + 1, ordered,
                        [st EXCEPT !.coll = @ \cup {docs[k]},
                                   !.inserted = Append(@, docs[k])])

\* The remote service executing one command on the collection (the set of the
\* ids of its documents): the new collection and the raw response
ServerApply(cmd, c) ==
    CASE cmd.name = "insertMany" ->
           LET out == InsertDocs(cmd.documents, 1, cmd.ordered,
                                 [coll |-> c, inserted |-> <<>>, failed |-> FALSE])
           IN [coll |-> out.coll,
               resp |-> Resp(IF out.failed THEN "errors" ELSE "ok",
                             Some(Status(Some(out.inserted), None, None, None, None)))]
      [] cmd.name = "insertOne" ->
           IF cmd.id \in c
             THEN [coll |-> c, resp |-> Resp("errors", None)]
             ELSE [coll |-> c \cup {cmd.id},
                   resp |-> Resp("ok", Some(Status(Some(<<cmd.id>>), None, None, None, None)))]
      [] cmd.name \in {"updateOne", "updateMany", "findOneAndReplace"} ->
           IF cmd.id \in c
             THEN [coll |-> c,
                   resp |-> Resp("ok", Some(Status(None, Some(1), Some(1), None, None)))]
             ELSE IF cmd.upsert = Some(TRUE)
               THEN [coll |-> c \cup {cmd.id},
                     resp |-> Resp("ok", Some(Status(None, Some(0), Some(0), None, Some(cmd.id))))]
               ELSE [coll |-> c,
                     resp |-> Resp("ok", Some(Status(None, Some(0), Some(0), None, None)))]
      [] cmd.name \in {"deleteOne", "deleteMany"} ->
           [coll |-> c \ {cmd.id},
            resp |-> Resp("ok", Some(Status(None, None, None,
                                            Some(IF cmd.id \in c THEN 1 ELSE 0), None)))]

\* ----------------------------------------------------------- accumulator

\* new BulkWriteResult()
NewBulkWriteResult ==
    [deletedCount |-> 0, insertedCount |-> 0, matchedCount |-> 0, modifiedCount |-> 0,
     upsertedCount |-> 0, upsertedIds |-> <<>>, raw |-> <<>>]

\* m[k] = v on a map m (an object used as a map, or an array indexed from 0)
Put(m, k, v) == [j \in DOMAIN m \cup {k} |-> IF j = k THEN v ELSE m[j]]

\* An addToBulkWriteResult that assigns the counts of the response where the
\* code adds them
addToBulkWriteResultAssigning(result, resp, i) ==
    LET counted == [result EXCEPT
                      !.insertedCount = Len(OrElse(resp.insertedIds, <<>>)),
                      !.modifiedCount = OrElse(resp.modifiedCount, 0),
                      !.matchedCount = OrElse(resp.matchedCount, 0),
                      !.deletedCount = OrElse(resp.deletedCount, 0)]
        upserted == IF TruthyId(resp.upsertedId)
                      THEN [counted EXCEPT
                              !.upsertedCount = @ + 1,
                              !.upsertedIds = Put(@, i, resp.upsertedId[1])]
                      ELSE counted
    IN [upserted EXCEPT !.raw = Append(@, resp)]

\* addToBulkWriteResult(result, resp, i), resp being a status object
addToBulkWriteResult(result, resp, i) ==
    LET counted == [result EXCEPT
                      !.insertedCount = @ + Len(OrElse(resp.insertedIds, <<>>)),
                      !.modifiedCount = @ + OrElse(resp.modifiedCount, 0),
                      !.matchedCount = @ + OrElse(resp.matchedCount, 0),
                      !.deletedCount = @ + OrElse(resp.deletedCount, 0)]
        upserted == IF TruthyId(resp.upsertedId)
                      THEN [counted EXCEPT
                              !.upsertedCount = @ + 1,
                              !.upsertedIds = Put(@, i, resp.upsertedId[1])]
                      ELSE counted
    IN [upserted EXCEPT !.raw = Append(@, resp)]

\* ------------------------------------------------------------------ state

VARIABLES
    method,         \* the method the caller invokes: "bulkWrite", "insertMany",
                    \* "deleteMany" or "find"
    operations,     \* bulkWrite: the caller's list of operation descriptors
    documents,      \* insertMany: the caller's list of documents (their _id)
    options,        \* the caller's options: [ordered, parallel] and, for
                    \* insertMany, chunkSize; all optional
    commands,       \* operations.map(buildBulkWriteCommands)
    coll,           \* the remote collection: the ids of its documents
    faults,         \* faults injected so far
    results,        \* the BulkWriteResult of the run
    insertedIds,    \* insertMany: the ids inserted so far
    i,              \* bulkWriteOrdered: the loop index
    masterIndex,    \* unordered runs: the shared index
    localI,         \* unordered runs: each worker's localI
    failCommands,   \* unordered runs: commands of the failed operations
    failRaw,        \* unordered runs: raw responses of the failed operations
    pc,             \* per requester (0: the ordered loop, w >= 1: worker w):
                    \* "idle", "await" (suspended in executeCommand), "done", "threw"
    rejection,      \* the error of the first worker promise that rejected
    main,           \* the call: "init", "awaiting", "returned", "threw"
    thrown,         \* the error the call threw
    log,            \* history: the send and receive events of the run, in order
    delivered,      \* history: per operation index (insertMany: per index of the
                    \* first document of a chunk; deleteMany: per request), the
                    \* answer given to the client
    filter,         \* deleteMany: the caller's filter
    numDeleted,     \* deleteMany: the documents deleted so far
    found,          \* find: the documents of the remote collection, in the
                    \* order the service holds them
    cursor,         \* the FindCursor: [namespace, filter, options, mapping,
                    \* state, buffer, pageState, consumed]
    call,           \* the method last called on the cursor, and how far it got
    fetches,        \* history: the find commands sent to the service, in order
    rewinds,        \* history: the number of rewind() calls so far
    cloned,         \* the cursor clone() returned, if any, with the call running
                    \* on it and its find commands: [cursor, call, fetches,
                    \* shared]
    extractor,      \* the closure mkDistinctPathExtractor returned: its path,
                    \* its array `values`, the documents it was applied to
                    \* and what its last application returned
    distinct        \* the run of distinct(key): the documents its cursor
                    \* yields, its Set `seen`, its list `ret`, where it is

\* The variables of deleteMany
deleteVars == <<filter, numDeleted>>

\* The variables of the cursor
cursorVars == <<found, cursor, call, fetches, rewinds, cloned>>

\* The variables of distinct
distinctVars == <<extractor, distinct>>

vars == <<method, operations, documents, options, commands, coll, faults, results,
          insertedIds, i, masterIndex, localI, failCommands, failRaw, pc, rejection,
          main, thrown, log, delivered, deleteVars, cursorVars, distinctVars>>

\* CursorStatus, the values of the cursor's _state
UNINITIALIZED == 0
INITIALIZED == 1
CLOSED == 2

\* FindOptions; limit 0 is no limit, skip 0 is no skip
FindOptions(lim, skp, srt, proj, sim) ==
    [limit |-> lim, skip |-> skp, sort |-> srt, projection |-> proj,
     includeSimilarity |-> sim]

\* The options of find(filter) called without options
NoFindOptions == FindOptions(0, 0, None, None, None)

\* new FindCursor(namespace, httpClient, filter, options): nothing is sent
NewFindCursor(f, o) ==
    [namespace |-> "test_keyspace", filter |-> f, options |-> o, mapping |-> None,
     state |-> UNINITIALIZED, buffer |-> <<>>, pageState |-> None, consumed |-> 0]

\* A call of a cursor method: the method, the cursor's state when it was
\* called, where the call is ("fetching": suspended in a fetch, "returned",
\* "threw"), the documents it has yielded so far, the answer of hasNext, the
\* error it threw, the number of fetches it has sent, for forEach and
\* for-await the number of documents after which the caller stops (0: never),
\* and for readBufferedDocuments its argument max, if given
Call(m, from, stop) ==
    [method |-> m, from |-> from, at |-> "running", out |-> <<>>, has |-> FALSE,
     error |-> None, fetched |-> 0, stop |-> stop, max |-> None]

\* No method has been called
NoCall == [Call("none", UNINITIALIZED, 0) EXCEPT !.at = "returned"]

\* mkDistinctPathExtractor(path): the closure over a new, empty array
mkDistinctPathExtractor(path) ==
    [path |-> path, values |-> <<>>, args |-> <<>>, returned |-> <<>>]

\* A run of distinct(key) that has not started, on a collection whose cursor
\* yields docs: the key split at the dots, the projection of its find, the
\* number of documents the loop has taken, the set `seen`, the list `ret`
DistinctRun(key, docs) ==
    [key |-> key, docs |-> docs, projection |-> <<>>, k |-> 0, seen |-> {},
     ret |-> <<>>, at |-> "idle", error |-> None]

\* The call is not a distinct
NoDistinct ==
    /\ extractor = mkDistinctPathExtractor(<<>>)
    /\ distinct = DistinctRun(<<>>, <<>>)

\* The call is not one on a cursor
NoCursor ==
    /\ found = <<>>
    /\ cursor = NewFindCursor(0, NoFindOptions)
    /\ call = NoCall
    /\ fetches = <<>>
    /\ rewinds = 0
    /\ cloned = None

\* The state of one run of the orchestrator, as one record
Run ==
    [results |-> results, insertedIds |-> insertedIds, i |-> i,
     masterIndex |-> masterIndex, localI |-> localI,
     failCommands |-> failCommands, failRaw |-> failRaw, pc |-> pc,
     rejection |-> rejection, main |-> main, thrown |-> thrown, log |-> log,
     delivered |-> delivered]

\* The run's next state is s
SetRun(s) ==
    /\ results' = s.results
    /\ insertedIds' = s.insertedIds
    /\ i' = s.i
    /\ masterIndex' = s.masterIndex
    /\ localI' = s.localI
    /\ failCommands' = s.failCommands
    /\ failRaw' = s.failRaw
    /\ pc' = s.pc
    /\ rejection' = s.rejection
    /\ main' = s.main
    /\ thrown' = s.thrown
    /\ log' = s.log
    /\ delivered' = s.delivered

\* Sequences over S of length at most n
SeqUpTo(S, n) == UNION {[1..k -> S] : k \in 0..n}

\* BulkWriteOptions: ordered without parallel, or unordered (ordered false or
\* unset) with an optional parallel
OptionsDomain ==
    {[ordered |-> o, parallel |-> None] : o \in {Some(TRUE), Some(FALSE)}}
      \cup {[ordered |-> None, parallel |-> Some(k)] : k \in 0..MaxParallel}

\* Nothing has run yet
ClientInit ==
    /\ commands = <<>>
    /\ faults = 0
    /\ results = NewBulkWriteResult
    /\ insertedIds = <<>>
    /\ i = 0
    /\ masterIndex = 0
    /\ localI = <<>>
    /\ failCommands = <<>>
    /\ failRaw = <<>>
    /\ pc = [r \in {0} |-> "idle"]
    /\ rejection = None
    /\ main = "init"
    /\ thrown = None
    /\ log = <<>>
    /\ delivered = <<>>
    /\ numDeleted = 0

\* Nothing has run yet, on an empty collection
RunInit == ClientInit /\ coll = {}

\* A filter: the number of its keys and the ids of the documents it matches
Filter(keys, matches) == [keys |-> keys, matches |-> matches]

\* The call is not one of deleteMany
NoDeleteMany == filter = Filter(0, {})

\* A caller about to invoke bulkWrite
Init ==
    /\ NoDeleteMany
    /\ NoDistinct
    /\ NoCursor
    /\ method = "bulkWrite"
    /\ operations \in SeqUpTo(OpDescriptors, MaxOps)
    /\ documents = <<>>
    /\ options \in OptionsDomain
    /\ RunInit

Event(ev, idx) == [ev |-> ev, idx |-> idx]

\* ------------------------------------------------------ command executor

\* One answer of the command executor: the raw response, the collection the
\* remote service leaves behind, and whether the answer is an injected fault
Answer(rsp, c, fault) == [resp |-> rsp, coll |-> c, fault |-> fault]

\* The answers a request carrying cmd can get in the current state: the one of
\* the remote service executing it; and, while faults may be injected, a
\* timeout or a transport failure (the command not executed), or the executed
\* command's status together with a list of errors (a partial effect)
Answers(cmd) ==
    LET out == ServerApply(cmd, coll)
    IN {Answer(out.resp, out.coll, 0)}
         \cup (IF faults < MaxFaults
                 THEN {Answer(Resp(kind, None), coll, 1) : kind \in {"timeout", "network"}}
                        \cup (IF out.resp.kind = "ok"
                                THEN {Answer(Resp("errors", out.resp.status), out.coll, 1)}
                                ELSE {})
                 ELSE {})

\* The error executeCommand throws for the answer rsp of operation idx
ThrownBy(rsp, idx) == [class |-> ErrorClass(rsp), idx |-> idx, rawResponse |-> rsp]

\* Rethrows with a timeout taken for an error of the operation
RethrowsUnlessTimeout(rsp) == rsp.kind = "network"

\* `if (!(e instanceof DataAPIResponseError)) throw e`, for the error of answer rsp
Rethrows(rsp) == ~IsDataAPIResponseError(ErrorClass(rsp))

\* mkRespErrorFromResponse(s)(BulkWriteError, command(s), rawResponse(s), results)
BulkWriteErrorOf(cmds, raws, partial) ==
    [class |-> "BulkWriteError", commands |-> cmds, raws |-> raws,
     partialResult |-> partial]

\* The answer rsp of operation idx has reached the client
Received(s, idx, rsp) ==
    [s EXCEPT !.log = Append(@, Event("recv", idx)), !.delivered = Put(@, idx, rsp)]

\* ------------------------------------------------------ bulkWriteOrdered

\* The head of the for loop of bulkWriteOrdered over n operations: sends
\* operations[i] and suspends in executeCommand, or leaves the loop and returns
\* the results
OrderedLoop(s, n) ==
    IF s.i < n
      THEN [s EXCEPT !.pc = Put(@, 0, "await"),
                     !.log = Append(@, Event("send", s.i)),
                     !.main = "awaiting"]
      ELSE [s EXCEPT !.pc = Put(@, 0, "done"), !.main = "returned"]

\* bulkWriteOrdered(httpClient, operations) up to its first await
bulkWriteOrdered(s, n) ==
    OrderedLoop([s EXCEPT !.results = NewBulkWriteResult, !.i = 0], n)

\* OrderedResume with the try/catch inside the loop body and the loop going on
\* after an operational error
OrderedResumeContinue(s, rsp, cmds) ==
    LET got == Received(s, s.i, rsp)
    IN IF rsp.kind # "ok" /\ Rethrows(rsp)
         THEN [got EXCEPT !.pc = Put(@, 0, "threw"),
                          !.main = "threw",
                          !.thrown = Some(ThrownBy(rsp, s.i))]
         ELSE OrderedLoop([got EXCEPT
                             !.results = IF rsp.status # None
                                           THEN addToBulkWriteResult(@, rsp.status[1], s.i)
                                           ELSE @,
                             !.i = s.i + 1],
                          Len(cmds))

\* OrderedResume without the instanceof test: every error of an operation is
\* wrapped in a BulkWriteError
OrderedResumeWrapAll(s, rsp, cmds) ==
    LET got == Received(s, s.i, rsp)
    IN IF rsp.kind = "ok"
         THEN OrderedLoop([got EXCEPT
                             !.results = addToBulkWriteResult(@, rsp.status[1], s.i),
                             !.i = s.i + 1],
                          Len(cmds))
         ELSE [got EXCEPT !.pc = Put(@, 0, "threw"),
                          !.main = "threw",
                          !.thrown = Some(BulkWriteErrorOf(<<cmds[s.i + 1]>>, <<rsp>>,
                                                           got.results))]

\* bulkWriteOrdered resumed with the answer rsp of operation i, up to the next
\* await, the return or the throw
OrderedResume(s, rsp, cmds) ==
    LET got == Received(s, s.i, rsp)
    IN IF rsp.kind = "ok"
         THEN OrderedLoop([got EXCEPT
                             !.results = addToBulkWriteResult(@, rsp.status[1], s.i),
                             !.i = s.i + 1],
                          Len(cmds))
         ELSE IF Rethrows(rsp)
           THEN [got EXCEPT !.pc = Put(@, 0, "threw"),
                            !.main = "threw",
                            !.thrown = Some(ThrownBy(rsp, s.i))]
           ELSE LET partial == IF rsp.status # None
                                 THEN addToBulkWriteResult(got.results, rsp.status[1], s.i)
                                 ELSE got.results
                IN [got EXCEPT !.results = partial,
                               !.pc = Put(@, 0, "threw"),
                               !.main = "threw",
                               !.thrown = Some(BulkWriteErrorOf(<<cmds[s.i + 1]>>, <<rsp>>,
                                                                partial))]

\* ---------------------------------------------------- bulkWriteUnordered

\* The workers of the run
Workers == DOMAIN pc \ {0}

\* WorkerLoop advancing the shared index twice per operation taken
WorkerLoopSkip(s, w, n) ==
    IF s.masterIndex < n
      THEN [s EXCEPT !.masterIndex = @ + 2,
                     !.pc = Put(@, w, "await"),
                     !.localI = Put(@, w, s.masterIndex),
                     !.log = Append(@, Event("send", s.masterIndex))]
      ELSE [s EXCEPT !.pc = Put(@, w, "done")]

\* WorkerLoop taking the operations from the last one down
WorkerLoopDescending(s, w, n) ==
    IF s.masterIndex < n
      THEN LET li == n - 1 - s.masterIndex
               mi == s.masterIndex + 1
           IN [s EXCEPT !.masterIndex = mi,
                        !.pc = Put(@, w, "await"),
                        !.localI = Put(@, w, li),
                        !.log = Append(@, Event("send", li))]
      ELSE [s EXCEPT !.pc = Put(@, w, "done")]

\* The head of the while loop of worker w over n operations: takes the next
\* index, sends its command and suspends in executeCommand, or leaves the loop
WorkerLoop(s, w, n) ==
    IF s.masterIndex < n
      THEN LET li == s.masterIndex
               mi == s.masterIndex + 1
           IN IF li >= n
                THEN [s EXCEPT !.masterIndex = mi, !.pc = Put(@, w, "done")]
                ELSE [s EXCEPT !.masterIndex = mi,
                               !.pc = Put(@, w, "await"),
                               !.localI = Put(@, w, li),
                               !.log = Append(@, Event("send", li))]
      ELSE [s EXCEPT !.pc = Put(@, w, "done")]

\* SpawnWorkers starting one worker more than parallel
RECURSIVE SpawnWorkersOneMore(_, _, _, _)
SpawnWorkersOneMore(s, w, par, n) ==
    IF w > par + 1 THEN s ELSE SpawnWorkersOneMore(WorkerLoop(s, w, n), w + 1, par, n)

\* Array.from({ length: parallel }, async () => ...): workers w..par are started
\* one after the other, each running up to its first await
RECURSIVE SpawnWorkers(_, _, _, _)
SpawnWorkers(s, w, par, n) ==
    IF w > par THEN s ELSE SpawnWorkers(WorkerLoop(s, w, n), w + 1, par, n)

\* bulkWriteUnordered(httpClient, operations, parallel) up to `await Promise.all`
bulkWriteUnordered(s, par, n) ==
    SpawnWorkers([s EXCEPT !.results = NewBulkWriteResult,
                           !.masterIndex = 0,
                           !.failCommands = <<>>,
                           !.failRaw = <<>>,
                           !.main = "awaiting"],
                 1, par, n)

\* Worker w resumed with the answer rsp of operation localI[w], up to its next
\* await, its end or its throw
WorkerResume(s, w, rsp, cmds) ==
    LET li == s.localI[w]
        got == Received(s, li, rsp)
    IN IF rsp.kind = "ok"
         THEN WorkerLoop([got EXCEPT
                            !.results = addToBulkWriteResult(@, rsp.status[1], li)],
                         w, Len(cmds))
         ELSE IF Rethrows(rsp)
           THEN [got EXCEPT !.pc = Put(@, w, "threw"),
                            !.rejection = IF @ = None THEN Some(ThrownBy(rsp, li)) ELSE @]
           ELSE WorkerLoop([got EXCEPT
                              !.results = IF rsp.status # None
                                            THEN addToBulkWriteResult(@, rsp.status[1], li)
                                            ELSE @,
                              !.failCommands = Append(@, cmds[li + 1]),
                              !.failRaw = Append(@, rsp)],
                           w, Len(cmds))

\* bulkWriteUnordered resumed from `await Promise.all(workers)`
AwaitAllResume(s) ==
    IF s.rejection # None
      THEN [s EXCEPT !.main = "threw", !.thrown = Some(s.rejection[1])]
      ELSE IF Len(s.failCommands) > 0
        THEN [s EXCEPT !.main = "threw",
                       !.thrown = Some(BulkWriteErrorOf(s.failCommands, s.failRaw,
                                                        s.results))]
        ELSE [s EXCEPT !.main = "returned"]

\* ---------------------------------------------------------------- actions

\* Collection.bulkWrite(operations, { ordered: true }) up to its first await
BulkWriteOrderedCall ==
    /\ method = "bulkWrite"
    /\ main = "init"
    /\ TruthyBool(options.ordered)
    /\ commands' = [k \in 1..Len(operations) |-> buildBulkWriteCommands(operations[k])]
    /\ SetRun(bulkWriteOrdered(Run, Len(operations)))
    /\ UNCHANGED <<method, operations, documents, options, coll, faults, deleteVars, cursorVars, distinctVars>>

\* Collection.bulkWrite(operations, options) with ordered falsy, up to
\* `await Promise.all(workers)`
BulkWriteUnorderedCall ==
    /\ method = "bulkWrite"
    /\ main = "init"
    /\ ~TruthyBool(options.ordered)
    /\ commands' = [k \in 1..Len(operations) |-> buildBulkWriteCommands(operations[k])]
    /\ SetRun(bulkWriteUnordered(Run, OrElse(options.parallel, DefaultParallel),
                                 Len(operations)))
    /\ UNCHANGED <<method, operations, documents, options, coll, faults, deleteVars, cursorVars, distinctVars>>

\* The request of bulkWriteOrdered is answered and the loop runs on
ResumeOrdered ==
    /\ method = "bulkWrite"
    /\ pc[0] = "await"
    /\ \E ans \in Answers(commands[i + 1]) :
         /\ coll' = ans.coll
         /\ faults' = faults + ans.fault
         /\ SetRun(OrderedResume(Run, ans.resp, commands))
    /\ UNCHANGED <<method, operations, documents, options, commands, deleteVars, cursorVars, distinctVars>>

\* The request of worker w is answered and the worker runs on
ResumeWorker(w) ==
    /\ method = "bulkWrite"
    /\ pc[w] = "await"
    /\ \E ans \in Answers(commands[localI[w] + 1]) :
         /\ coll' = ans.coll
         /\ faults' = faults + ans.fault
         /\ SetRun(WorkerResume(Run, w, ans.resp, commands))
    /\ UNCHANGED <<method, operations, documents, options, commands, deleteVars, cursorVars, distinctVars>>

\* `await Promise.all(workers)` settles: with the first rejection as soon as one
\* worker has thrown, else once every worker has ended
AwaitAll ==
    /\ method = "bulkWrite"
    /\ main = "awaiting"
    /\ ~TruthyBool(options.ordered)
    /\ \/ rejection # None
       \/ \A w \in Workers : pc[w] = "done"
    /\ SetRun(AwaitAllResume(Run))
    /\ UNCHANGED <<method, operations, documents, options, commands, coll, faults,
                   deleteVars, cursorVars, distinctVars>>

\* ------------------------------------------------------------- insertMany

\* The documents handed to insertMany: their _id, which a document may lack
DocDomain == {None} \cup {Some(id) : id \in Ids}

\* InsertManyOptions: ordered without parallel, or unordered with an optional
\* parallel; and an optional chunkSize
InsertManyOptionsDomain ==
    {[ordered |-> Some(TRUE), parallel |-> None, chunkSize |-> c] :
       c \in {None} \cup {Some(k) : k \in 1..MaxChunk}}
      \cup {[ordered |-> None, parallel |-> par, chunkSize |-> c] :
              par \in {None} \cup {Some(k) : k \in 0..MaxParallel},
              c \in {None} \cup {Some(k) : k \in 1..MaxChunk}}

\* A caller about to invoke insertMany
InitInsertMany ==
    /\ NoDeleteMany
    /\ NoDistinct
    /\ NoCursor
    /\ method = "insertMany"
    /\ operations = <<>>
    /\ documents \in SeqUpTo(DocDomain, MaxDocs)
    /\ options \in InsertManyOptionsDomain
    /\ RunInit

\* The ObjectId generated on the client for the document at index k: unlike
\* the ids of Ids and unlike the one generated for any other document
GenId(k) == Cardinality(Ids) + k

\* setDefaultIdForInsert on every document: a document without _id gets a
\* generated one
WithDefaultIds(docs) ==
    [k \in 1..Len(docs) |-> IF docs[k] = None THEN Some(GenId(k - 1)) ELSE docs[k]]

\* `a.slice(from, to)` of the ids of the documents
Slice(docs, from, to) ==
    LET end == IF to < Len(docs) THEN to ELSE Len(docs)
    IN [k \in 1..(IF end > from THEN end - from ELSE 0) |-> docs[from + k][1]]

\* The InsertManyCommand of insertMany(httpClient, slice, ordered)
InsertManyCommand(slice, ordered) ==
    [name |-> "insertMany", documents |-> slice, ordered |-> ordered]

\* `resp.status?.insertedIds ?? []`
InsertedOf(rsp) ==
    IF rsp.status = None THEN <<>> ELSE OrElse(rsp.status[1].insertedIds, <<>>)

\* mkRespErrorFromResponse(s)(InsertManyError, command(s), rawResponse(s),
\* { insertedIds, insertedCount })
InsertManyErrorOf(cmds, raws, ids) ==
    [class |-> "InsertManyError", commands |-> cmds, raws |-> raws,
     partialResult |-> [insertedIds |-> ids, insertedCount |-> Len(ids)]]

\* The InsertManyResult a returning insertMany hands to the caller
InsertManyResult == [insertedCount |-> Len(insertedIds), insertedIds |-> insertedIds]

\* The head of the for loop of insertManyOrdered over n documents: sends the
\* chunk that starts at i and suspends, or leaves the loop and returns
InsertOrderedLoop(s, n) ==
    IF s.i < n
      THEN [s EXCEPT !.pc = Put(@, 0, "await"),
                     !.log = Append(@, Event("send", s.i)),
                     !.main = "awaiting"]
      ELSE [s EXCEPT !.pc = Put(@, 0, "done"), !.main = "returned"]

\* insertManyOrdered(httpClient, documents, chunkSize) up to its first await
insertManyOrdered(s, n) ==
    InsertOrderedLoop([s EXCEPT !.insertedIds = <<>>, !.i = 0], n)

\* insertManyOrdered resumed with the answer rsp of the chunk cmd that starts at
\* i, up to the next await, the return or the throw
InsertOrderedResume(s, rsp, cmd, n, chunkSize) ==
    LET got == Received(s, s.i, rsp)
    IN IF rsp.kind = "ok"
         THEN InsertOrderedLoop([got EXCEPT !.insertedIds = @ \o InsertedOf(rsp),
                                            !.i = s.i + chunkSize],
                                n)
         ELSE IF Rethrows(rsp)
           THEN [got EXCEPT !.pc = Put(@, 0, "threw"),
                            !.main = "threw",
                            !.thrown = Some(ThrownBy(rsp, s.i))]
           ELSE LET ids == got.insertedIds \o InsertedOf(rsp)
                IN [got EXCEPT !.insertedIds = ids,
                               !.pc = Put(@, 0, "threw"),
                               !.main = "threw",
                               !.thrown = Some(InsertManyErrorOf(<<cmd>>, <<rsp>>, ids))]

\* InsertWorkerLoop advancing the shared index by one document per chunk taken
InsertWorkerLoopByOne(s, w, n, chunkSize) ==
    IF s.masterIndex < n
      THEN [s EXCEPT !.masterIndex = @ + 1,
                     !.pc = Put(@, w, "await"),
                     !.localI = Put(@, w, s.masterIndex),
                     !.log = Append(@, Event("send", s.masterIndex))]
      ELSE [s EXCEPT !.pc = Put(@, w, "done")]

\* The head of the while loop of worker w of insertManyUnordered over n
\* documents: takes the next chunk, sends it and suspends, or leaves the loop
InsertWorkerLoop(s, w, n, chunkSize) ==
    IF s.masterIndex < n
      THEN LET li == s.masterIndex
               endIdx == IF li + chunkSize < n THEN li + chunkSize ELSE n
               mi == s.masterIndex + chunkSize
           IN IF li >= endIdx
                THEN [s EXCEPT !.masterIndex = mi, !.pc = Put(@, w, "done")]
                ELSE [s EXCEPT !.masterIndex = mi,
                               !.pc = Put(@, w, "await"),
                               !.localI = Put(@, w, li),
                               !.log = Append(@, Event("send", li))]
      ELSE [s EXCEPT !.pc = Put(@, w, "done")]

\* Array.from({ length: parallel }, async () => ...) of insertManyUnordered
RECURSIVE SpawnInsertWorkers(_, _, _, _, _)
SpawnInsertWorkers(s, w, par, n, chunkSize) ==
    IF w > par
      THEN s
      ELSE SpawnInsertWorkers(InsertWorkerLoop(s, w, n, chunkSize), w + 1, par, n, chunkSize)

\* insertManyUnordered(httpClient, documents, parallel, chunkSize) up to
\* `await Promise.all`
insertManyUnordered(s, par, n, chunkSize) ==
    SpawnInsertWorkers([s EXCEPT !.insertedIds = <<>>,
                                 !.masterIndex = 0,
                                 !.failCommands = <<>>,
                                 !.failRaw = <<>>,
                                 !.main = "awaiting"],
                       1, par, n, chunkSize)

\* InsertWorkerResume with the worker ending at the first insertion error
InsertWorkerResumeStopOnError(s, w, rsp, cmd, n, chunkSize) ==
    LET got == Received(s, s.localI[w], rsp)
    IN IF rsp.kind = "ok"
         THEN InsertWorkerLoop([got EXCEPT !.insertedIds = @ \o InsertedOf(rsp)],
                               w, n, chunkSize)
         ELSE IF Rethrows(rsp)
           THEN [got EXCEPT !.pc = Put(@, w, "threw"),
                            !.rejection = IF @ = None
                                            THEN Some(ThrownBy(rsp, s.localI[w]))
                                            ELSE @]
           ELSE [got EXCEPT !.insertedIds = @ \o InsertedOf(rsp),
                            !.failCommands = Append(@, cmd),
                            !.failRaw = Append(@, rsp),
                            !.pc = Put(@, w, "done")]

\* Worker w of insertManyUnordered resumed with the answer rsp of its chunk cmd,
\* up to its next await, its end or its throw
InsertWorkerResume(s, w, rsp, cmd, n, chunkSize) ==
    LET got == Received(s, s.localI[w], rsp)
    IN IF rsp.kind = "ok"
         THEN InsertWorkerLoop([got EXCEPT !.insertedIds = @ \o InsertedOf(rsp)],
                               w, n, chunkSize)
         ELSE IF Rethrows(rsp)
           THEN [got EXCEPT !.pc = Put(@, w, "threw"),
                            !.rejection = IF @ = None
                                            THEN Some(ThrownBy(rsp, s.localI[w]))
                                            ELSE @]
           ELSE InsertWorkerLoop([got EXCEPT !.insertedIds = @ \o InsertedOf(rsp),
                                             !.failCommands = Append(@, cmd),
                                             !.failRaw = Append(@, rsp)],
                                 w, n, chunkSize)

\* insertManyUnordered resumed from `await Promise.all(workers)`
InsertAwaitAllResume(s) ==
    IF s.rejection # None
      THEN [s EXCEPT !.main = "threw", !.thrown = Some(s.rejection[1])]
      ELSE IF Len(s.failCommands) > 0
        THEN [s EXCEPT !.main = "threw",
                       !.thrown = Some(InsertManyErrorOf(s.failCommands, s.failRaw,
                                                         s.insertedIds))]
        ELSE [s EXCEPT !.main = "returned"]

\* `options?.chunkSize ?? 20`
ChunkSize == OrElse(options.chunkSize, DefaultChunkSize)

\* The command of the chunk that starts at document from
ChunkCommand(from, ordered) ==
    InsertManyCommand(Slice(documents, from, from + ChunkSize), ordered)

\* Collection.insertMany(documents, { ordered: true, chunkSize }) up to its first
\* await
InsertManyOrderedCall ==
    /\ method = "insertMany"
    /\ main = "init"
    /\ TruthyBool(options.ordered)
    /\ documents' = WithDefaultIds(documents)
    /\ SetRun(insertManyOrdered(Run, Len(documents)))
    /\ UNCHANGED <<method, operations, options, commands, coll, faults, deleteVars, cursorVars, distinctVars>>

\* Collection.insertMany(documents, options) with ordered falsy, up to
\* `await Promise.all(workers)`
InsertManyUnorderedCall ==
    /\ method = "insertMany"
    /\ main = "init"
    /\ ~TruthyBool(options.ordered)
    /\ documents' = WithDefaultIds(documents)
    /\ SetRun(insertManyUnordered(Run, OrElse(options.parallel, DefaultParallel),
                                   Len(documents), ChunkSize))
    /\ UNCHANGED <<method, operations, options, commands, coll, faults, deleteVars, cursorVars, distinctVars>>

\* The request of insertManyOrdered is answered and the loop runs on
ResumeInsertOrdered ==
    /\ method = "insertMany"
    /\ pc[0] = "await"
    /\ \E ans \in Answers(ChunkCommand(i, TRUE)) :
         /\ coll' = ans.coll
         /\ faults' = faults + ans.fault
         /\ SetRun(InsertOrderedResume(Run, ans.resp, ChunkCommand(i, TRUE),
                                        Len(documents), ChunkSize))
    /\ UNCHANGED <<method, operations, documents, options, commands, deleteVars, cursorVars, distinctVars>>

\* The request of worker w of insertManyUnordered is answered and the worker
\* runs on
ResumeInsertWorker(w) ==
    /\ method = "insertMany"
    /\ pc[w] = "await"
    /\ \E ans \in Answers(ChunkCommand(localI[w], FALSE)) :
         /\ coll' = ans.coll
         /\ faults' = faults + ans.fault
         /\ SetRun(InsertWorkerResume(Run, w, ans.resp, ChunkCommand(localI[w], FALSE),
                                       Len(documents), ChunkSize))
    /\ UNCHANGED <<method, operations, documents, options, commands, deleteVars, cursorVars, distinctVars>>

\* `await Promise.all(workers)` of insertManyUnordered settles
AwaitAllInsert ==
    /\ method = "insertMany"
    /\ main = "awaiting"
    /\ ~TruthyBool(options.ordered)
    /\ \/ rejection # None
       \/ \A w \in Workers : pc[w] = "done"
    /\ SetRun(InsertAwaitAllResume(Run))
    /\ UNCHANGED <<method, operations, documents, options, commands, coll, faults,
                   deleteVars, cursorVars, distinctVars>>

\* InsertManyOptions as insertMany takes them: chunkSize is any number, and
\* nothing rejects a chunkSize of 0
AcceptedInsertManyOptions ==
    InsertManyOptionsDomain
      \cup {[o EXCEPT !.chunkSize = Some(0)] : o \in InsertManyOptionsDomain}

\* A caller about to invoke insertMany with options it accepts, the number of
\* workers of an unordered one being given
InitAccepted ==
    /\ NoDeleteMany
    /\ NoDistinct
    /\ NoCursor
    /\ method = "insertMany"
    /\ operations = <<>>
    /\ documents \in SeqUpTo(DocDomain, MaxDocs)
    /\ options \in AcceptedInsertManyOptions
    /\ TruthyBool(options.ordered) \/ options.parallel # None
    /\ RunInit

\* The sends and answers the log of a run keeps: more than any run over
\* MaxDocs documents in chunks of one document or more has
MaxLog == 2 * MaxDocs + 2

\* The run s with a log of MaxLog events at most: a log that has grown past
\* MaxLog loses its oldest events, all but the last MaxLog - 2
LastOfLog(s) ==
    IF Len(s.log) <= MaxLog THEN s
    ELSE [s EXCEPT !.log = SubSeq(@, Len(@) - MaxLog + 3, Len(@))]

\* The request of insertManyOrdered is answered and the loop runs on, the log
\* keeping its last events
ResumeInsertOrderedFollowed ==
    /\ method = "insertMany"
    /\ pc[0] = "await"
    /\ \E ans \in Answers(ChunkCommand(i, TRUE)) :
         /\ coll' = ans.coll
         /\ faults' = faults + ans.fault
         /\ SetRun(LastOfLog(InsertOrderedResume(Run, ans.resp, ChunkCommand(i, TRUE),
                                                  Len(documents), ChunkSize)))
    /\ UNCHANGED <<method, operations, documents, options, commands, deleteVars, cursorVars, distinctVars>>

\* ------------------------------------------------------------- deleteMany

\* The ids of the documents a collection handed to deleteMany may hold
Stored == 0..(MaxStored - 1)

\* The filters handed to deleteMany: the empty filter {}, which matches every
\* document, and filters of one key
Filters == {Filter(0, Stored)} \cup {Filter(1, S) : S \in SUBSET Stored}

\* A caller about to invoke deleteMany(filter) on a collection
InitDeleteMany ==
    /\ method = "deleteMany"
    /\ operations = <<>>
    /\ documents = <<>>
    /\ options = [ordered |-> None, parallel |-> None]
    /\ filter \in Filters
    /\ NoCursor
    /\ NoDistinct
    /\ ClientInit
    /\ coll \in SUBSET Stored

\* The status of the answer to a deleteMany command
DeleteStatus(deleted, more) == [deletedCount |-> deleted, moreData |-> more]

\* The answers a deleteMany request can get in the current state: the remote
\* service deletes some or all of the matching documents and reports moreData
\* while matching documents are left; and, while faults may be injected, a
\* timeout or a transport failure, or a deletion reported with a list of errors
DeleteAnswers(f) ==
    LET matching == coll \cap f.matches
        pages == {D \in SUBSET matching : D # {} \/ matching = {}}
        served == {Answer(Resp("ok", Some(DeleteStatus(Some(Cardinality(D)),
                                                        Some(D # matching)))),
                          coll \ D, 0) : D \in pages}
    IN served
         \cup (IF faults < MaxFaults
                 THEN {Answer(Resp(kind, None), coll, 1) : kind \in {"timeout", "network"}}
                        \cup {Answer(Resp("errors", a.resp.status), a.coll, 1) : a \in served}
                 ELSE {})

\* The DeleteManyCommand of deleteMany(filter)
DeleteManyCommand(f) == [name |-> "deleteMany", filter |-> f]

\* mkRespErrorFromResponse(DeleteManyError, command, rawResponse, { deletedCount })
DeleteManyErrorOf(cmd, raw, deleted) ==
    [class |-> "DeleteManyError", commands |-> <<cmd>>, raws |-> <<raw>>,
     partialResult |-> [deletedCount |-> deleted]]

\* `resp.status?.deletedCount ?? 0`
DeletedOf(rsp) ==
    IF rsp.status = None THEN 0 ELSE OrElse(rsp.status[1].deletedCount, 0)

\* `resp.status?.moreData`
MoreData(rsp) == rsp.status # None /\ TruthyBool(rsp.status[1].moreData)

\* The deleteMany command is handed to the command executor: request number k
DeleteSend(s, k) ==
    [s EXCEPT !.i = k,
              !.pc = Put(@, 0, "await"),
              !.log = Append(@, Event("send", k)),
              !.main = "awaiting"]

\* deleteMany without the test of the filter
deleteManyUnchecked(s, f) == DeleteSend(s, 0)

\* deleteMany(filter) up to its throw or its first await
deleteMany(s, f) ==
    IF f.keys = 0
      THEN [s EXCEPT !.pc = Put(@, 0, "threw"),
                     !.main = "threw",
                     !.thrown = Some([class |-> "Error", idx |-> -1,
                                      rawResponse |-> Resp("empty filter", None)])]
      ELSE DeleteSend(s, 0)

\* deleteMany resumed with the answer rsp of request i: its next state and the
\* new numDeleted
DeleteResume(s, rsp, f, deleted) ==
    LET got == Received(s, s.i, rsp)
    IN IF rsp.kind = "ok"
         THEN [run |-> IF MoreData(rsp)
                         THEN DeleteSend(got, s.i + 1)
                         ELSE [got EXCEPT !.pc = Put(@, 0, "done"), !.main = "returned"],
               numDeleted |-> deleted + DeletedOf(rsp)]
         ELSE [run |-> [got EXCEPT
                          !.pc = Put(@, 0, "threw"),
                          !.main = "threw",
                          !.thrown = IF Rethrows(rsp)
                                       THEN Some(ThrownBy(rsp, s.i))
                                       ELSE Some(DeleteManyErrorOf(DeleteManyCommand(f), rsp,
                                                                   deleted + DeletedOf(rsp)))],
               numDeleted |-> deleted]

\* Collection.deleteMany(filter) up to its throw or its first await
DeleteManyCall ==
    /\ method = "deleteMany"
    /\ main = "init"
    /\ SetRun(deleteMany(Run, filter))
    /\ numDeleted' = 0
    /\ UNCHANGED <<method, operations, documents, options, commands, coll, faults, filter,
                   cursorVars, distinctVars>>

\* The request of deleteMany is answered and the loop runs on
ResumeDeleteMany ==
    /\ method = "deleteMany"
    /\ pc[0] = "await"
    /\ \E ans \in DeleteAnswers(filter) :
         /\ coll' = ans.coll
         /\ faults' = faults + ans.fault
         /\ SetRun(DeleteResume(Run, ans.resp, filter, numDeleted).run)
         /\ numDeleted' = DeleteResume(Run, ans.resp, filter, numDeleted).numDeleted
    /\ UNCHANGED <<method, operations, documents, options, commands, filter, cursorVars, distinctVars>>

\* ------------------------------------------------------------- FindCursor

\* The documents of a collection of n documents, by _id, in the order the
\* service holds them, which for n >= 2 is not the sorted one
FoundDocs(n) == [k \in 1..n |-> (k % n) + 1]

\* The filters of the callers: 0 is {}, matching every document, and k >= 1
\* is {_id: k}
FindFilters == {0, 1}

\* The mapping functions of the callers: ageToString, and one that throws
Mappings == {"ageToString", "throws"}

\* ageToString(doc): the document with its age as a string, never the raw one
ageToString(d) == -d

\* The error the throwing mapping function throws, known by its message
MappingError == "Mapping error"

\* The mapping function of the cursor throws
MappingThrows(c) == c.mapping = Some("throws")

\* The document the cursor yields for the raw document d
Mapped(c, d) == IF c.mapping = None THEN d ELSE ageToString(d)

\* The smaller of two numbers
Min(a, b) == IF a < b THEN a ELSE b

\* The find command of the next page
FindCommand(c) ==
    [filter |-> c.filter, sort |-> c.options.sort, projection |-> c.options.projection,
     includeSimilarity |-> c.options.includeSimilarity, skip |-> c.options.skip,
     pageState |-> c.pageState]

\* The documents matching a filter, in the order the service holds them
Matching(f) == SelectSeq(found, LAMBDA d : f = 0 \/ d = f)

\* The documents the service serves for a find command, over all its pages:
\* those matching the filter, without the skipped ones; a sorted find is served
\* in sorted order and in one page only
Served(cmd) ==
    LET m == Matching(cmd.filter)
        o == IF cmd.sort = None THEN m ELSE SortSeq(m, LAMBDA a, b : a < b)
        s == SubSeq(o, cmd.skip + 1, Len(o))
    IN  IF cmd.sort = None THEN s ELSE SubSeq(s, 1, Min(MaxPage, Len(s)))

\* A page of documents with the state of the next page
Page(docs, nextPageState) ==
    [kind |-> "ok", documents |-> docs, nextPageState |-> nextPageState]

\* The answers a find command can get in the current state: a page of at most
\* MaxPage of the documents that follow the page state, with the state of the
\* next page while documents remain (a full last page may also announce a next
\* page, which is then empty); and, while faults may be injected, an error
\* response, a timeout or a transport failure
FindAnswers(cmd) ==
    LET s == Served(cmd)
        o == IF cmd.pageState = None THEN 0 ELSE cmd.pageState[1]
        rest == Len(s) - o
        lens == IF rest = 0 THEN {0}
                ELSE IF cmd.sort # None THEN {rest}
                ELSE 1..Min(MaxPage, rest)
        states(k) == IF k < rest THEN {Some(o + k)}
                     ELSE IF k = MaxPage /\ cmd.sort = None THEN {None, Some(o + k)}
                     ELSE {None}
    IN  UNION {{[resp |-> Page(SubSeq(s, o + 1, o + k), t), fault |-> FALSE] :
                   t \in states(k)} : k \in lens}
          \cup (IF faults < MaxFaults
                THEN {[resp |-> [kind |-> k, documents |-> <<>>, nextPageState |-> None],
                       fault |-> TRUE] : k \in {"errors", "timeout", "network"}}
                ELSE {})

\* cursor.closed
closed(c) == c.state = CLOSED

\* cursor.bufferedCount()
bufferedCount(c) == Len(c.buffer)

\* A close() that throws away what is buffered
closeDiscarding(c) == [c EXCEPT !.state = CLOSED, !.buffer = <<>>]

\* cursor.close(): the buffer is kept
close(c) == [c EXCEPT !.state = CLOSED]

\* A rewind that forgets neither the page state nor the documents consumed
rewindKeepingPosition(c) == [c EXCEPT !.buffer = <<>>, !.state = UNINITIALIZED]

\* cursor.rewind()
rewind(c) ==
    [c EXCEPT !.buffer = <<>>, !.pageState = None, !.consumed = 0,
              !.state = UNINITIALIZED]

\* A mutator that changes the cursor while it is closed
MutatedUnlessFetching(c, changed) ==
    IF c.state = INITIALIZED THEN [cursor |-> c, threw |-> TRUE]
    ELSE [cursor |-> changed, threw |-> FALSE]

\* A mutator: it throws CursorAlreadyInitializedError unless the cursor is
\* UNINITIALIZED, and changes the cursor otherwise
Mutated(c, changed) ==
    IF c.state # UNINITIALIZED THEN [cursor |-> c, threw |-> TRUE]
    ELSE [cursor |-> changed, threw |-> FALSE]

\* cursor.filter(f)
filterBy(c, f) == Mutated(c, [c EXCEPT !.filter = f])

\* cursor.sort(s)
sort(c, s) == Mutated(c, [c EXCEPT !.options.sort = Some(s)])

\* cursor.limit(l)
limit(c, l) == Mutated(c, [c EXCEPT !.options.limit = l])

\* cursor.skip(k)
skip(c, k) == Mutated(c, [c EXCEPT !.options.skip = k])

\* cursor.project(p)
project(c, p) == Mutated(c, [c EXCEPT !.options.projection = Some(p)])

\* cursor.map(m)
map(c, m) == Mutated(c, [c EXCEPT !.mapping = Some(m)])

\* A cursor, the call running on it and the find commands sent, as one record
Frame(c, cl, fs) == [cursor |-> c, call |-> cl, fetches |-> fs]

\* Pages remain only once a page has announced the next one
MorePagesOnlyAnnounced(c) == c.pageState # None

\* Pages remain for as long as the cursor is open
MorePagesUntilClosed(c) == c.state # CLOSED

\* Pages may remain: nothing was fetched yet, or the last page announced one
MorePages(c) == c.state = UNINITIALIZED \/ c.pageState # None

\* fetchNextPage up to its await: the find command is sent, and a request
\* having been issued the cursor is INITIALIZED
SendFetch(r) ==
    Frame([r.cursor EXCEPT !.state = INITIALIZED],
          [r.call EXCEPT !.at = "fetching", !.fetched = @ + 1],
          Append(r.fetches, FindCommand(r.cursor)))

\* fetchNextPage after its await: the page replaces the buffer and its page
\* state is stored; a page that exceeds the limit is truncated and is the last
Fetched(c, rsp) ==
    LET room == c.options.limit - c.consumed
    IN  IF c.options.limit > 0 /\ Len(rsp.documents) > room
        THEN [c EXCEPT !.buffer = SubSeq(rsp.documents, 1, room), !.pageState = None]
        ELSE [c EXCEPT !.buffer = rsp.documents, !.pageState = rsp.nextPageState]

\* The call returns
Returned(r) == [r EXCEPT !.call.at = "returned"]

\* A throw that hands the caller an error of the cursor's own in place of the
\* one that was raised
ThrewWrapped(r, cls) ==
    [r EXCEPT !.cursor.state = CLOSED, !.call.at = "threw",
              !.call.error = Some("CursorError")]

\* The call throws an error of class cls, the cursor being closed first
Threw(r, cls) ==
    [r EXCEPT !.cursor = close(@), !.call.at = "threw", !.call.error = Some(cls)]

\* A closed cursor that still serves what it holds and what remains upstream
nextWhenClosed(r) ==
    LET c == r.cursor
    IN  IF c.buffer # <<>>
        THEN IF MappingThrows(c)
             THEN Threw([r EXCEPT !.cursor.buffer = Tail(@)], MappingError)
             ELSE Returned([r EXCEPT !.cursor.buffer = Tail(@),
                                     !.cursor.consumed = @ + 1,
                                     !.call.out = Append(@, Mapped(c, Head(c.buffer)))])
        ELSE IF c.state = UNINITIALIZED \/ c.pageState # None THEN SendFetch(r)
        ELSE Returned([r EXCEPT !.cursor = close(@)])

\* A next() that does not count the documents it returns
nextUncounted(r) ==
    LET c == r.cursor
    IN  IF closed(c) THEN Returned(r)
        ELSE IF c.buffer # <<>>
        THEN IF MappingThrows(c)
             THEN Threw([r EXCEPT !.cursor.buffer = Tail(@)], MappingError)
             ELSE Returned([r EXCEPT !.cursor.buffer = Tail(@),
                                     !.call.out = Append(@, Mapped(c, Head(c.buffer)))])
        ELSE IF c.state = UNINITIALIZED \/ c.pageState # None THEN SendFetch(r)
        ELSE Returned([r EXCEPT !.cursor = close(@)])

\* A next() that takes the document buffered last
nextFromBack(r) ==
    LET c == r.cursor
        n == Len(c.buffer)
    IN  IF c.state = CLOSED THEN Returned(r)
        ELSE IF c.buffer # <<>>
        THEN IF MappingThrows(c)
             THEN Threw([r EXCEPT !.cursor.buffer = SubSeq(@, 1, n - 1)], MappingError)
             ELSE Returned([r EXCEPT !.cursor.buffer = SubSeq(@, 1, n - 1),
                                     !.cursor.consumed = @ + 1,
                                     !.call.out = Append(@, Mapped(c, c.buffer[n]))])
        ELSE IF c.state = UNINITIALIZED \/ c.pageState # None THEN SendFetch(r)
        ELSE Returned([r EXCEPT !.cursor = close(@)])

\* A next() that, finding two documents or more in the buffer, returns the
\* first and throws the second away
nextDropping(r) ==
    LET c == r.cursor
    IN  IF closed(c) THEN Returned(r)
        ELSE IF c.buffer # <<>>
        THEN IF MappingThrows(c)
             THEN Threw([r EXCEPT !.cursor.buffer = Tail(@)], MappingError)
             ELSE Returned([r EXCEPT !.cursor.buffer =
                                       IF Len(@) >= 2 THEN Tail(Tail(@)) ELSE Tail(@),
                                     !.cursor.consumed = @ + 1,
                                     !.call.out = Append(@, Mapped(c, Head(c.buffer)))])
        ELSE IF c.state = UNINITIALIZED \/ c.pageState # None THEN SendFetch(r)
        ELSE Returned([r EXCEPT !.cursor = close(@)])

\* cursor.next() up to its return, its throw or its next await: null on a
\* closed cursor; else the first buffered document, mapped; else, while pages
\* may remain, a fetch; else null, the cursor being closed
next(r) ==
    LET c == r.cursor
    IN  IF closed(c) THEN Returned(r)
        ELSE IF c.buffer # <<>>
        THEN IF MappingThrows(c)
             THEN Threw([r EXCEPT !.cursor.buffer = Tail(@)], MappingError)
             ELSE Returned([r EXCEPT !.cursor.buffer = Tail(@),
                                     !.cursor.consumed = @ + 1,
                                     !.call.out = Append(@, Mapped(c, Head(c.buffer)))])
        ELSE IF MorePages(c) THEN SendFetch(r)
        ELSE Returned([r EXCEPT !.cursor = close(@)])

\* A hasNext() that takes the document it has seen out of the buffer
hasNextConsuming(r) ==
    LET c == r.cursor
    IN  IF closed(c) THEN Returned(r)
        ELSE IF c.buffer # <<>>
        THEN Returned([r EXCEPT !.call.has = TRUE, !.cursor.buffer = Tail(@),
                                !.cursor.consumed = @ + 1])
        ELSE IF r.call.fetched = 0 /\ (c.state = UNINITIALIZED \/ c.pageState # None)
        THEN SendFetch(r)
        ELSE Returned(r)

\* cursor.hasNext() up to its return or its await: false on a closed cursor,
\* true on a filled buffer, else at most one fetch
hasNext(r) ==
    LET c == r.cursor
    IN  IF closed(c) THEN Returned(r)
        ELSE IF c.buffer # <<>> THEN Returned([r EXCEPT !.call.has = TRUE])
        ELSE IF r.call.fetched = 0 /\ MorePages(c) THEN SendFetch(r)
        ELSE Returned(r)

\* What the caller's loop body or forEach's consumer returns for the k-th
\* document: "break" leaves a for-await loop, "false" is the consumer's
\* cancellation value, "undefined" the value of a consumer that returns nothing
Returns(cl, k) ==
    IF cl.stop # k THEN "undefined"
    ELSE IF cl.method = "forEach" THEN "false" ELSE "break"

\* A forEach that any falsy value of the consumer cancels
CancelsOnFalsy(ret) == ret \in {"break", "false", "undefined"}

\* The value leaves the loop: a break, or a consumer returning false
Cancels(ret) == ret \in {"break", "false"}

\* A loop that leaves the cursor ready for another pass instead of closed
RECURSIVE iterateMultiPass(_)
iterateMultiPass(r) ==
    LET n == next(r)
    IN  IF n.call.at # "returned" THEN n
        ELSE IF Len(n.call.out) = Len(r.call.out)
        THEN Returned([n EXCEPT !.cursor = rewind(@)])
        ELSE IF Cancels(Returns(n.call, Len(n.call.out)))
        THEN Returned([n EXCEPT !.cursor = close(@)])
        ELSE iterateMultiPass([n EXCEPT !.call.at = "running"])

\* The loop of toArray(), forEach() and for-await up to its return, its throw
\* or its next await: next() until it gives null or the caller leaves the
\* loop, and the cursor is closed on the way out
RECURSIVE iterate(_)
iterate(r) ==
    LET n == next(r)
    IN  IF n.call.at # "returned" THEN n
        ELSE IF Len(n.call.out) = Len(r.call.out)
        THEN Returned([n EXCEPT !.cursor = close(@)])
        ELSE IF Cancels(Returns(n.call, Len(n.call.out)))
        THEN Returned([n EXCEPT !.cursor = close(@)])
        ELSE iterate([n EXCEPT !.call.at = "running"])

\* The call goes on after a page has arrived
Continue(r) ==
    CASE r.call.method = "next"    -> next(r)
      [] r.call.method = "hasNext" -> hasNext(r)
      [] OTHER                     -> iterate(r)

\* A failed fetch that is thrown to the caller while the cursor stays open
FetchResumeLeavingOpen(r, rsp) ==
    IF rsp.kind # "ok"
    THEN [r EXCEPT !.call.at = "threw", !.call.error = Some(ErrorClass(rsp))]
    ELSE Continue([r EXCEPT !.cursor = Fetched(@, rsp), !.call.at = "running"])

\* The call is resumed with the answer of its fetch: an error closes the
\* cursor and is thrown
FetchResume(r, rsp) ==
    IF rsp.kind # "ok" THEN Threw(r, ErrorClass(rsp))
    ELSE Continue([r EXCEPT !.cursor = Fetched(@, rsp), !.call.at = "running"])

\* The methods that consume the cursor in a loop
Loops == {"toArray", "forEach", "iterate"}

\* The result set of the cursor's query: the documents served, up to the limit,
\* mapped
ResultSet(c) ==
    LET s == Served(FindCommand(rewind(c)))
        t == IF c.options.limit > 0 THEN SubSeq(s, 1, Min(c.options.limit, Len(s)))
             ELSE s
    IN  [k \in 1..Len(t) |-> Mapped(c, t[k])]

\* A caller holding a new cursor on a collection
InitCursor ==
    /\ NoDeleteMany
    /\ NoDistinct
    /\ method = "find"
    /\ operations = <<>>
    /\ documents = <<>>
    /\ options = [ordered |-> None, parallel |-> None]
    /\ RunInit
    /\ found \in {FoundDocs(n) : n \in 0..MaxFound}
    /\ cursor \in {NewFindCursor(f, NoFindOptions) : f \in FindFilters}
    /\ call = NoCall
    /\ fetches = <<>>
    /\ rewinds = 0
    /\ cloned = None

\* What the cursor's methods leave alone
NotOfCursor ==
    <<method, operations, documents, options, commands, coll, results, insertedIds,
      i, masterIndex, localI, failCommands, failRaw, pc, rejection, main, thrown,
      log, delivered, deleteVars, found, distinctVars>>

\* The cursor other once the cursor it shares objects with has become c: the
\* filter, the options and the buffer are those of c (two cursors that share
\* nothing leave each other alone)
Sharing(other, c, shared) ==
    IF shared
    THEN [other EXCEPT !.filter = c.filter, !.options = c.options, !.buffer = c.buffer]
    ELSE other

\* The clone once the original has become c
Through(c) ==
    IF cloned = None THEN cloned
    ELSE Some([cloned[1] EXCEPT !.cursor = Sharing(@, c, cloned[1].shared)])

\* The caller may call a method: no call is suspended in a fetch
CanCall == method = "find" /\ call.at # "fetching"

\* The call's next state is r
SetFrame(r) ==
    /\ cursor' = r.cursor
    /\ call' = r.call
    /\ fetches' = r.fetches
    /\ cloned' = Through(r.cursor)

\* A mutator was called: it changed the cursor, or threw
SetMutated(m, res) ==
    /\ cursor' = res.cursor
    /\ call' = [Call(m, cursor.state, 0) EXCEPT
                  !.at = IF res.threw THEN "threw" ELSE "returned",
                  !.error = IF res.threw THEN Some("CursorAlreadyInitializedError")
                            ELSE None]
    /\ cloned' = Through(res.cursor)
    /\ UNCHANGED <<fetches, rewinds, faults, NotOfCursor>>

CallFilter ==
    /\ CanCall
    /\ \E f \in FindFilters : SetMutated("filter", filterBy(cursor, f))

CallSort ==
    /\ CanCall
    /\ SetMutated("sort", sort(cursor, 1))

CallLimit ==
    /\ CanCall
    /\ \E l \in 0..MaxLimit : SetMutated("limit", limit(cursor, l))

CallSkip ==
    /\ CanCall
    /\ \E k \in 0..1 : SetMutated("skip", skip(cursor, k))

CallProject ==
    /\ CanCall
    /\ SetMutated("project", project(cursor, 1))

CallMap ==
    /\ CanCall
    /\ \E m \in Mappings : SetMutated("map", map(cursor, m))

\* A method that consumes the cursor, called and run up to its return, its
\* throw or its first await
Begin(m, stop) == Continue(Frame(cursor, Call(m, cursor.state, stop), fetches))

CallNext ==
    /\ CanCall
    /\ SetFrame(Begin("next", 0))
    /\ UNCHANGED <<rewinds, faults, NotOfCursor>>

CallHasNext ==
    /\ CanCall
    /\ SetFrame(Begin("hasNext", 0))
    /\ UNCHANGED <<rewinds, faults, NotOfCursor>>

CallToArray ==
    /\ CanCall
    /\ SetFrame(Begin("toArray", 0))
    /\ UNCHANGED <<rewinds, faults, NotOfCursor>>

\* forEach(consumer): the consumer returns nothing, or false at some document
CallForEach ==
    /\ CanCall
    /\ \E stop \in 0..1 : SetFrame(Begin("forEach", stop))
    /\ UNCHANGED <<rewinds, faults, NotOfCursor>>

\* for await (const doc of cursor): the body runs through, or breaks
CallIterate ==
    /\ CanCall
    /\ \E stop \in 0..1 : SetFrame(Begin("iterate", stop))
    /\ UNCHANGED <<rewinds, faults, NotOfCursor>>

\* The answer of the fetch arrives
ResumeFetch ==
    /\ method = "find"
    /\ call.at = "fetching"
    /\ \E ans \in FindAnswers(fetches[Len(fetches)]) :
         /\ faults' = faults + (IF ans.fault THEN 1 ELSE 0)
         /\ SetFrame(FetchResume(Frame(cursor, call, fetches), ans.resp))
    /\ UNCHANGED <<rewinds, NotOfCursor>>

CallClose ==
    /\ CanCall
    /\ cursor' = close(cursor)
    /\ call' = [Call("close", cursor.state, 0) EXCEPT !.at = "returned"]
    /\ cloned' = Through(close(cursor))
    /\ UNCHANGED <<fetches, rewinds, faults, NotOfCursor>>

\* rewind(): the history of the find commands starts anew with the cursor
CallRewind ==
    /\ CanCall
    /\ rewinds < MaxRewinds
    /\ cursor' = rewind(cursor)
    /\ call' = [Call("rewind", cursor.state, 0) EXCEPT !.at = "returned"]
    /\ cloned' = Through(rewind(cursor))
    /\ fetches' = <<>>
    /\ rewinds' = rewinds + 1
    /\ UNCHANGED <<faults, NotOfCursor>>

\* A readBufferedDocuments that applies the mapping to what it returns
readBufferedDocumentsMapped(c, max) ==
    LET toRead == IF max = None THEN Len(c.buffer) ELSE Min(max[1], Len(c.buffer))
    IN  [cursor |-> [c EXCEPT !.buffer = SubSeq(@, toRead + 1, Len(@))],
         docs |-> [k \in 1..toRead |-> Mapped(c, c.buffer[k])]]

\* cursor.readBufferedDocuments(max): the first max documents of the buffer,
\* or all of them, taken out of the buffer and returned as they are
readBufferedDocuments(c, max) ==
    LET toRead == IF max = None THEN Len(c.buffer) ELSE Min(max[1], Len(c.buffer))
    IN  [cursor |-> [c EXCEPT !.buffer = SubSeq(@, toRead + 1, Len(@))],
         docs |-> SubSeq(c.buffer, 1, toRead)]

\* The arguments of readBufferedDocuments: none, or a number up to one more
\* than a page holds
Maxes == {None} \cup {Some(k) : k \in 0..(MaxPage + 1)}

CallReadBufferedDocuments ==
    /\ CanCall
    /\ \E max \in Maxes :
         LET res == readBufferedDocuments(cursor, max)
         IN  /\ cursor' = res.cursor
             /\ call' = [Call("readBufferedDocuments", cursor.state, 0) EXCEPT
                           !.at = "returned", !.out = res.docs, !.max = max]
             /\ cloned' = Through(res.cursor)
    /\ UNCHANGED <<fetches, rewinds, faults, NotOfCursor>>

\* A clone() that hands out the original's filter, options and buffer
\* themselves instead of copies
cloneSharing(c) ==
    [cursor |-> [c EXCEPT !.mapping = None, !.state = UNINITIALIZED,
                          !.pageState = None, !.consumed = 0],
     shared |-> TRUE]

\* A clone() that copies the mapping function too
cloneWithMapping(c) ==
    [cursor |-> [NewFindCursor(c.filter, c.options) EXCEPT
                   !.namespace = c.namespace, !.mapping = c.mapping],
     shared |-> FALSE]

\* A clone() that copies the filter and leaves the options behind
cloneWithoutOptions(c) ==
    [cursor |-> [NewFindCursor(c.filter, NoFindOptions) EXCEPT
                   !.namespace = c.namespace],
     shared |-> FALSE]

\* cursor.clone(): a new cursor on the same namespace with copies of the
\* filter and of the options, without the mapping, sharing nothing
clone(c) ==
    [cursor |-> [NewFindCursor(c.filter, c.options) EXCEPT !.namespace = c.namespace],
     shared |-> FALSE]

\* const clone = cursor.clone(): the caller keeps one clone
CallClone ==
    /\ CanCall
    /\ cloned = None
    /\ LET cl == clone(cursor)
       IN  cloned' = Some([cursor |-> cl.cursor, call |-> NoCall, fetches |-> <<>>,
                           shared |-> cl.shared])
    /\ call' = [Call("clone", cursor.state, 0) EXCEPT !.at = "returned"]
    /\ UNCHANGED <<cursor, fetches, rewinds, faults, NotOfCursor>>

\* The caller may call a method of the clone
CanCallClone == method = "find" /\ cloned # None /\ cloned[1].call.at # "fetching"

\* The clone's next state is r; the original follows in what it shares
SetClone(r) ==
    /\ cloned' = Some([cursor |-> r.cursor, call |-> r.call, fetches |-> r.fetches,
                        shared |-> cloned[1].shared])
    /\ cursor' = Sharing(cursor, r.cursor, cloned[1].shared)
    /\ UNCHANGED <<call, fetches, rewinds, NotOfCursor>>

\* A consuming method called on the clone and run up to its return, its throw
\* or its first await
BeginClone(m) ==
    Continue(Frame(cloned[1].cursor, Call(m, cloned[1].cursor.state, 0),
                   cloned[1].fetches))

\* clone.filter(f)
CloneFilter ==
    /\ CanCallClone
    /\ \E f \in FindFilters :
         LET res == filterBy(cloned[1].cursor, f)
         IN  SetClone(Frame(res.cursor,
                            [Call("filter", cloned[1].cursor.state, 0) EXCEPT
                               !.at = IF res.threw THEN "threw" ELSE "returned",
                               !.error = IF res.threw
                                         THEN Some("CursorAlreadyInitializedError")
                                         ELSE None],
                            cloned[1].fetches))
    /\ UNCHANGED faults

\* await clone.toArray()
CloneToArray ==
    /\ CanCallClone
    /\ SetClone(BeginClone("toArray"))
    /\ UNCHANGED faults

\* The answer of the clone's fetch arrives
CloneResumeFetch ==
    /\ method = "find"
    /\ cloned # None
    /\ cloned[1].call.at = "fetching"
    /\ \E ans \in FindAnswers(cloned[1].fetches[Len(cloned[1].fetches)]) :
         /\ faults' = faults + (IF ans.fault THEN 1 ELSE 0)
         /\ SetClone(FetchResume(Frame(cloned[1].cursor, cloned[1].call,
                                       cloned[1].fetches), ans.resp))

\* ------------------------------------------------------ the path extractor

\* The values of a document: null, undefined (an absent property), numbers,
\* strings, arrays (a sequence of values) and objects (a sequence of
\* <<key, value>> pairs)
Null == <<"null">>
Undefined == <<"undefined">>
Num(n) == <<"number", n>>
Str(x) == <<"string", x>>
Arr(elems) == <<"array", elems>>
Obj(props) == <<"object", props>>

\* Array.isArray(value)
IsArray(value) == value[1] = "array"

\* typeof value === 'object', of a value that is not null
IsObject(value) == value[1] \in {"array", "object"}

\* The truthiness of a value: null, undefined, 0 and '' are falsy
Truthy(value) ==
    /\ value[1] \notin {"null", "undefined"}
    /\ value # Num(0)
    /\ value # Str("")

\* value[prop] of an object: undefined when the object has no such property
Get(value, prop) ==
    LET at == {k \in 1..Len(value[2]) : value[2][k][1] = prop}
    IN  IF at = {} THEN Undefined ELSE value[2][CHOOSE k \in at : TRUE][2]

\* parseInt(prop, 10) of a path segment: the number a decimal digit stands
\* for, NaN (None) for a name
parseInt(prop) ==
    LET ns == {n \in 0..9 : ToString(n) = prop}
    IN  IF ns = {} THEN None ELSE Some(CHOOSE n \in ns : TRUE)

\* The sequences of a sequence of sequences, one after the other
RECURSIVE Flat(_)
Flat(ss) == IF ss = <<>> THEN <<>> ELSE Head(ss) \o Flat(Tail(ss))

\* An extract whose index is not checked against the length of the array: an
\* index out of range takes the last element
RECURSIVE extractUnchecked(_, _, _)
extractUnchecked(path, index, value) ==
    IF ~Truthy(value) THEN <<>>
    ELSE IF index = Len(path)
    THEN IF IsArray(value) THEN value[2] ELSE <<value>>
    ELSE LET prop == path[index + 1]
         IN  IF IsArray(value)
             THEN LET asInt == parseInt(prop)
                  IN  IF asInt = None
                      THEN Flat([k \in 1..Len(value[2]) |->
                                   extractUnchecked(path, index, value[2][k])])
                      ELSE IF value[2] # <<>>
                      THEN extractUnchecked(
                             path, index + 1,
                             value[2][IF asInt[1] < Len(value[2]) THEN asInt[1] + 1
                                      ELSE Len(value[2])])
                      ELSE <<>>
             ELSE IF IsObject(value)
             THEN extractUnchecked(path, index + 1, Get(value, prop))
             ELSE <<>>

\* An extract that applies every segment, index or name, to every element of
\* an array
RECURSIVE extractBroadcastingAll(_, _, _)
extractBroadcastingAll(path, index, value) ==
    IF ~Truthy(value) THEN <<>>
    ELSE IF index = Len(path)
    THEN IF IsArray(value) THEN value[2] ELSE <<value>>
    ELSE LET prop == path[index + 1]
         IN  IF IsArray(value)
             THEN Flat([k \in 1..Len(value[2]) |->
                          extractBroadcastingAll(
                            path, IF parseInt(prop) = None THEN index ELSE index + 1,
                            value[2][k])])
             ELSE IF IsObject(value)
             THEN extractBroadcastingAll(path, index + 1, Get(value, prop))
             ELSE <<>>

\* extract(path, index, value), the inner function of
\* mkDistinctPathExtractor: the values it pushes onto `values`, in order
RECURSIVE extract(_, _, _)
extract(path, index, value) ==
    IF ~Truthy(value) THEN <<>>
    ELSE IF index = Len(path)
    THEN IF IsArray(value) THEN value[2] ELSE <<value>>
    ELSE LET prop == path[index + 1]
         IN  IF IsArray(value)
             THEN LET asInt == parseInt(prop)
                  IN  IF asInt = None
                      THEN Flat([k \in 1..Len(value[2]) |->
                                   extract(path, index, value[2][k])])
                      ELSE IF asInt[1] < Len(value[2])
                      THEN extract(path, index + 1, value[2][asInt[1] + 1])
                      ELSE <<>>
             ELSE IF IsObject(value)
             THEN extract(path, index + 1, Get(value, prop))
             ELSE <<>>

\* The closure mkDistinctPathExtractor returns, applied to doc: the values
\* found are pushed onto the one array of the closure, and that array is
\* returned
Apply(e, doc) ==
    LET vs == e.values \o extract(e.path, 0, doc)
    IN  [e EXCEPT !.values = vs, !.args = Append(@, doc), !.returned = vs]

\* An object with the one property tag
Tag(v) == Obj(<<<<"tag", v>>>>)

\* A document with the one property items
Items(v) == Obj(<<<<"items", v>>>>)

\* What the arrays of the documents hold: null, a number, an array, and
\* objects whose tag is 0, 'a' or 'b'
ItemElems ==
    {Null, Num(1), Arr(<<Str("b")>>), Tag(Num(0)), Tag(Str("a")), Tag(Str("b"))}

\* The sequences over S of length n at most
SeqsUpTo(S, n) == UNION {[1..k -> S] : k \in 0..n}

\* The documents: items is an array of MaxItems elements at most, an object,
\* a string, null, or absent
Docs ==
    {Items(Arr(a)) : a \in SeqsUpTo(ItemElems, MaxItems)}
      \cup {Items(Tag(Str("a"))), Items(Str("a")), Items(Null), Obj(<<>>)}

\* The documents an extractor is applied to after its first one
LaterDocs ==
    {Items(Arr(<<Tag(Str("a")), Tag(Str("b"))>>)), Items(Arr(<<Tag(Str("b"))>>)),
     Items(Tag(Str("a"))), Items(Null)}

\* The path segments that are array indices; the last one is out of range
IndexSegments == {ToString(n) : n \in 0..MaxItems}

\* The paths, split at the dots
Paths ==
    {<<"items">>, <<"tag">>, <<"items", "tag">>, <<"items", "tag", "tag">>}
      \cup {<<"items", ix>> : ix \in IndexSegments}
      \cup {<<"items", ix, "tag">> : ix \in IndexSegments}
      \cup {<<"items", "tag", ix>> : ix \in IndexSegments}

\* A caller holding a new path extractor
InitExtract ==
    /\ NoDeleteMany
    /\ NoCursor
    /\ method = "extract"
    /\ operations = <<>>
    /\ documents = <<>>
    /\ options = [ordered |-> None, parallel |-> None]
    /\ RunInit
    /\ extractor \in {mkDistinctPathExtractor(path) : path \in Paths}
    /\ distinct = DistinctRun(<<>>, <<>>)

\* What the path extractor and distinct leave alone
NotOfDistinct ==
    <<method, operations, documents, options, commands, coll, faults, results,
      insertedIds, i, masterIndex, localI, failCommands, failRaw, pc, rejection,
      main, thrown, log, delivered, deleteVars, cursorVars>>

\* const values = extract(doc)
ExtractCall ==
    /\ method = "extract"
    /\ Len(extractor.args) < MaxCalls
    /\ \E doc \in (IF extractor.args = <<>> THEN Docs ELSE LaterDocs) :
         extractor' = Apply(extractor, doc)
    /\ UNCHANGED <<distinct, NotOfDistinct>>

\* ---------------------------------------------------------------- distinct

\* typeof value === 'object': objects, arrays and null
TypeofObject(value) == value[1] \in {"null", "array", "object"}

\* A value with the order of the keys of its objects forgotten
RECURSIVE Canon(_)
Canon(value) ==
    IF value[1] = "array"
    THEN Arr([k \in 1..Len(value[2]) |-> Canon(value[2][k])])
    ELSE IF value[1] = "object"
    THEN Obj({<<value[2][k][1], Canon(value[2][k][2])>> : k \in 1..Len(value[2])})
    ELSE value

\* objectHash(value): a string, the same for two values of the same structure
objectHash(value) == Str(ToString(Canon(value)))

\* The loop of distinct over the values the extractor returned: a value is
\* looked up in `seen` under its hash when typeof says object and under
\* itself otherwise, and pushed onto `ret` when it was not there
RECURSIVE PushUnseen(_, _, _)
PushUnseen(values, seen, ret) ==
    IF values = <<>> THEN [seen |-> seen, ret |-> ret]
    ELSE LET v == Head(values)
             entry == IF TypeofObject(v) THEN objectHash(v) ELSE v
         IN  IF entry \in seen THEN PushUnseen(Tail(values), seen, ret)
             ELSE PushUnseen(Tail(values), seen \cup {entry}, Append(ret, v))

\* assertPathSafe4Distinct(path) does not throw: no segment is empty
PathSafe4Distinct(split) == \A k \in 1..Len(split) : split[k] # ""

\* pullSafeProjection4Distinct(path): the segments before the first number
RECURSIVE pullSafeProjection4Distinct(_)
pullSafeProjection4Distinct(split) ==
    IF split = <<>> \/ parseInt(Head(split)) # None \/ Head(split) = "" THEN <<>>
    ELSE <<Head(split)>> \o pullSafeProjection4Distinct(Tail(split))

\* Two objects with the same properties in a different order
ObjectAB == Obj(<<<<"a", Num(1)>>, <<"b", Num(2)>>>>)
ObjectBA == Obj(<<<<"b", Num(2)>>, <<"a", Num(1)>>>>)

\* The documents of the collection: tags that are strings, the number 1 and
\* the string '1', objects, an array with a repeated value and a null, the
\* string that is the hash of an object, and an array of tagged items
DistinctDocs ==
    {Tag(Str("a")), Tag(Num(1)), Tag(Str("1")), Tag(ObjectAB), Tag(ObjectBA),
     Tag(Arr(<<Str("a"), Null, Str("a")>>)), Tag(objectHash(ObjectAB)),
     Items(Arr(<<Tag(Str("a")), Tag(Str("b"))>>))}

\* The keys of distinct, split at the dots; the last one has an empty segment
DistinctKeys ==
    {<<"tag">>, <<"items", "tag">>, <<"items", "0", "tag">>, <<"tag", "">>}

\* A caller about to call distinct(key) on a collection of MaxCalls documents
\* at most
InitDistinct ==
    /\ NoDeleteMany
    /\ NoCursor
    /\ method = "distinct"
    /\ operations = <<>>
    /\ documents = <<>>
    /\ options = [ordered |-> None, parallel |-> None]
    /\ RunInit
    /\ extractor = mkDistinctPathExtractor(<<>>)
    /\ distinct \in {DistinctRun(key, docs) :
                        key \in DistinctKeys, docs \in SeqsUpTo(DistinctDocs, MaxCalls)}

\* distinct(key) up to its loop: the path is asserted safe, the cursor is
\* made with the projection, the extractor with the key
DistinctCall ==
    /\ method = "distinct"
    /\ distinct.at = "idle"
    /\ IF PathSafe4Distinct(distinct.key)
       THEN /\ distinct' =
                 [distinct EXCEPT
                    !.at = "iterating",
                    !.projection = pullSafeProjection4Distinct(distinct.key)]
            /\ extractor' = mkDistinctPathExtractor(distinct.key)
       ELSE /\ distinct' = [distinct EXCEPT !.at = "thrown", !.error = Some("Error")]
            /\ UNCHANGED extractor
    /\ UNCHANGED NotOfDistinct

\* One turn of `for await (const doc of cursor)`: the extractor is applied to
\* the document and every value of the array it returns goes through the loop
DistinctDoc ==
    /\ method = "distinct"
    /\ distinct.at = "iterating"
    /\ distinct.k < Len(distinct.docs)
    /\ extractor' = Apply(extractor, distinct.docs[distinct.k + 1])
    /\ LET pushed == PushUnseen(extractor'.returned, distinct.seen, distinct.ret)
       IN  distinct' = [distinct EXCEPT !.k = @ + 1, !.seen = pushed.seen,
                                        !.ret = pushed.ret]
    /\ UNCHANGED NotOfDistinct

\* The cursor is exhausted: return ret
DistinctReturn ==
    /\ method = "distinct"
    /\ distinct.at = "iterating"
    /\ distinct.k = Len(distinct.docs)
    /\ distinct' = [distinct EXCEPT !.at = "returned"]
    /\ UNCHANGED <<extractor, NotOfDistinct>>

\* A fetch of the cursor fails: distinct rejects with its error
DistinctFail ==
    /\ method = "distinct"
    /\ distinct.at = "iterating"
    /\ distinct' = [distinct EXCEPT !.at = "thrown", !.error = Some("Error")]
    /\ UNCHANGED <<extractor, NotOfDistinct>>

\* --------------------------------------------------------- specifications

\* The runs of bulkWrite
Next ==
    \/ BulkWriteOrderedCall
    \/ BulkWriteUnorderedCall
    \/ ResumeOrdered
    \/ \E w \in Workers : ResumeWorker(w)
    \/ AwaitAll

Spec == Init /\ [][Next]_vars

\* The runs of bulkWrite over updates with and without upsert
InitUpsert ==
    /\ NoDeleteMany
    /\ NoDistinct
    /\ NoCursor
    /\ method = "bulkWrite"
    /\ operations \in SeqUpTo(UpsertDescriptors, MaxOps)
    /\ documents = <<>>
    /\ options \in OptionsDomain
    /\ RunInit

SpecUpsert == InitUpsert /\ [][Next]_vars

\* The runs of insertMany
NextInsertMany ==
    \/ InsertManyOrderedCall
    \/ InsertManyUnorderedCall
    \/ ResumeInsertOrdered
    \/ \E w \in Workers : ResumeInsertWorker(w)
    \/ AwaitAllInsert

SpecInsertMany == InitInsertMany /\ [][NextInsertMany]_vars

\* The runs of insertMany with any options it accepts; a run does not stop
\* while a request waits for its answer or a continuation is ready
NextAccepted ==
    \/ InsertManyOrderedCall
    \/ InsertManyUnorderedCall
    \/ ResumeInsertOrderedFollowed
    \/ \E w \in Workers : ResumeInsertWorker(w)
    \/ AwaitAllInsert

SpecAccepted ==
    /\ InitAccepted
    /\ [][NextAccepted]_vars
    /\ WF_vars(NextAccepted)

\* The runs of deleteMany
NextDeleteMany ==
    \/ DeleteManyCall
    \/ ResumeDeleteMany

SpecDeleteMany == InitDeleteMany /\ [][NextDeleteMany]_vars

\* The life of a cursor
NextCursor ==
    \/ CallFilter
    \/ CallSort
    \/ CallLimit
    \/ CallSkip
    \/ CallProject
    \/ CallMap
    \/ CallNext
    \/ CallHasNext
    \/ CallToArray
    \/ CallForEach
    \/ CallIterate
    \/ ResumeFetch
    \/ CallClose
    \/ CallRewind

SpecCursor == InitCursor /\ [][NextCursor]_vars

\* A caller holding a new cursor on a collection of MaxFound documents
InitClone ==
    /\ InitCursor
    /\ Len(found) = MaxFound

\* The runs of a caller holding a cursor and one clone of it
NextClone ==
    \/ CallFilter
    \/ CallSort
    \/ CallProject
    \/ CallMap
    \/ CallHasNext
    \/ CallNext
    \/ ResumeFetch
    \/ CallClose
    \/ CallClone
    \/ CloneFilter
    \/ CloneToArray
    \/ CloneResumeFetch

SpecClone == InitClone /\ [][NextClone]_vars

\* The runs of a caller applying one path extractor to documents
NextExtract == ExtractCall

SpecExtract == InitExtract /\ [][NextExtract]_vars

\* The runs of distinct
NextDistinct ==
    \/ DistinctCall
    \/ DistinctDoc
    \/ DistinctReturn
    \/ DistinctFail

SpecDistinct == InitDistinct /\ [][NextDistinct]_vars

\* The runs of a caller who reads the buffer of a cursor
NextReadBuffered ==
    \/ CallMap
    \/ CallLimit
    \/ CallHasNext
    \/ CallNext
    \/ CallIterate
    \/ ResumeFetch
    \/ CallClose
    \/ CallReadBufferedDocuments

SpecReadBuffered == InitCursor /\ [][NextReadBuffered]_vars

\* The unordered runs of bulkWrite and of insertMany
InitUnordered == (Init \/ InitInsertMany) /\ ~TruthyBool(options.ordered)

NextUnordered ==
    \/ BulkWriteUnorderedCall
    \/ \E w \in Workers : ResumeWorker(w)
    \/ AwaitAll
    \/ InsertManyUnorderedCall
    \/ \E w \in Workers : ResumeInsertWorker(w)
    \/ AwaitAllInsert

SpecUnordered == InitUnordered /\ [][NextUnordered]_vars

\* The unordered runs of bulkWrite on a given number of workers
InitUnorderedBulkWrite ==
    /\ Init
    /\ ~TruthyBool(options.ordered)
    /\ options.parallel # None

NextUnorderedBulkWrite ==
    \/ BulkWriteUnorderedCall
    \/ \E w \in Workers : ResumeWorker(w)
    \/ AwaitAll

SpecUnorderedBulkWrite == InitUnorderedBulkWrite /\ [][NextUnorderedBulkWrite]_vars

\* ----------------------------------------------------------- properties

IsOrdered == TruthyBool(options.ordered)

\* The run is over for the caller
Settled == main \in {"returned", "threw"}

\* The indices of the operations sent so far, in the order of sending
IsSend(e) == e.ev = "send"
SentIdx == LET sends == SelectSeq(log, IsSend) IN [p \in 1..Len(sends) |-> sends[p].idx]

\* The operations answered with an operational (response-level) error
FailedOps == {k \in DOMAIN delivered : delivered[k].kind = "errors"}

\* The operations answered with a timeout or a transport failure
TransportOps == {k \in DOMAIN delivered : delivered[k].kind \in {"timeout", "network"}}

\* [insertOne(A), insertOne(duplicate of A), insertOne(B)]
InsertAAB == <<Op("insertOne", 1, None), Op("insertOne", 1, None), Op("insertOne", 0, None)>>

\* C1: in ordered bulkWrite the log is send 0, recv 0, send 1, recv 1, ...: the
\* operations are sent one at a time in index order, each only after the answer
\* of the one before it has been received; and once operation k has failed with
\* an operational error no operation with a greater index is in the log.  For
\* [insert A, insert duplicate of A, insert B] the run throws with
\* insertedCount = 1 and B is never sent.
C1_OrderedSequentialStop ==
    IsOrdered =>
      /\ \A p \in 1..Len(log) :
           log[p] = IF p % 2 = 1 THEN Event("send", (p - 1) \div 2)
                                 ELSE Event("recv", (p \div 2) - 1)
      /\ \A k \in FailedOps : \A p \in 1..Len(log) : IsSend(log[p]) => log[p].idx <= k
      /\ (operations = InsertAAB /\ faults = 0 /\ Settled) =>
           /\ main = "threw"
           /\ thrown[1].class = "BulkWriteError"
           /\ thrown[1].partialResult.insertedCount = 1
           /\ SentIdx = <<0, 1>>

\* An ordered run over [insert A, insert duplicate of A, insert B] has thrown
\* for operation 1
C1_Witness ==
    /\ IsOrdered
    /\ operations = InsertAAB
    /\ main = "threw"
    /\ FailedOps = {1}
    /\ coll = {1}

\* C2: in unordered bulkWrite no operation index is ever sent twice, and once
\* every worker of a run with parallel >= 1 has ended (no worker has thrown a
\* transport-level error) the indices sent are exactly 0..n-1
C2_EachIndexSentOnce ==
    (~IsOrdered /\ main # "init") =>
      LET sent == SentIdx IN
        /\ \A p, q \in 1..Len(sent) : sent[p] = sent[q] => p = q
        /\ (Workers # {} /\ \A w \in Workers : pc[w] = "done") =>
             {sent[p] : p \in 1..Len(sent)} = 0..(Len(operations) - 1)

\* An unordered run of three operations on two workers has ended with an
\* operation that failed operationally
C2_Witness ==
    /\ ~IsOrdered
    /\ options.parallel = Some(2)
    /\ Len(operations) = 3
    /\ FailedOps # {}
    /\ \A w \in Workers : pc[w] = "done"

\* The counters of a BulkWriteResult
Counters ==
    {"insertedCount", "matchedCount", "modifiedCount", "deletedCount", "upsertedCount"}

\* The answer carries an upserted id
CarriesUpsertedId(rsp) == rsp.status # None /\ rsp.status[1].upsertedId # None

\* What the answer rsp reports for counter c: the number of inserted ids, the
\* counts of its status, one upserted document when it carries an upserted id
Delta(rsp, c) ==
    IF rsp.status = None
      THEN 0
      ELSE CASE c = "insertedCount" -> Len(OrElse(rsp.status[1].insertedIds, <<>>))
             [] c = "matchedCount"  -> OrElse(rsp.status[1].matchedCount, 0)
             [] c = "modifiedCount" -> OrElse(rsp.status[1].modifiedCount, 0)
             [] c = "deletedCount"  -> OrElse(rsp.status[1].deletedCount, 0)
             [] c = "upsertedCount" -> IF CarriesUpsertedId(rsp) THEN 1 ELSE 0

\* The sum of Delta over the answers of the operations in K
RECURSIVE SumDelta(_, _)
SumDelta(K, c) ==
    IF K = {}
      THEN 0
      ELSE LET k == CHOOSE x \in K : TRUE
           IN Delta(delivered[k], c) + SumDelta(K \ {k}, c)

\* The operations answered without error
OkOps == {k \in DOMAIN delivered : delivered[k].kind = "ok"}

\* C3: when an unordered bulkWrite throws the aggregated BulkWriteError every
\* worker has ended and every operation has been answered; the error carries
\* the accumulator with the effect of every successful operation merged in
\* (every counter at least the sum of what the successful answers report, every
\* upserted id of a successful answer present) and exactly one
\* (command, raw response) record per failed operation.  For
\* [insert A, insert duplicate of A, insert B] with parallel 2 it has
\* insertedCount = 2 and one record.
C3_AggregatedErrorAfterAll ==
    (~IsOrdered /\ main = "threw" /\ thrown[1].class = "BulkWriteError") =>
      LET e == thrown[1] IN
        /\ \A w \in Workers : pc[w] = "done"
        /\ DOMAIN delivered = 0..(Len(operations) - 1)
        /\ \A c \in Counters : e.partialResult[c] >= SumDelta(OkOps, c)
        /\ \A k \in OkOps : CarriesUpsertedId(delivered[k]) =>
                              k \in DOMAIN e.partialResult.upsertedIds
        /\ Len(e.raws) = Cardinality(FailedOps)
        /\ Len(e.commands) = Cardinality(FailedOps)
        /\ \A k \in FailedOps : \E j \in 1..Len(e.raws) :
             e.commands[j] = commands[k + 1] /\ e.raws[j] = delivered[k]
        /\ (operations = InsertAAB /\ options.parallel = Some(2) /\ faults = 0) =>
             e.partialResult.insertedCount = 2 /\ Len(e.raws) = 1

\* C4: when operation k of an ordered bulkWrite fails with an operational error
\* the partial result of the BulkWriteError is the accumulator of the run, and
\* each of its counters is the sum of what the answers of operations 0..k-1
\* report plus what the status of the failing answer reports
C4_OrderedPartialResult ==
    (IsOrdered /\ main = "threw" /\ thrown[1].class = "BulkWriteError") =>
      /\ thrown[1].partialResult = results
      /\ \A c \in Counters :
           thrown[1].partialResult[c] = SumDelta(0..(i - 1), c) + Delta(delivered[i], c)

\* C5: when a bulkWrite run returns, each counter of the result is the sum over
\* all operations of what the operation's answer reports for it
C5_CountersAreSums ==
    main = "returned" =>
      \A c \in Counters : results[c] = SumDelta(DOMAIN delivered, c)

\* The requests sent and not yet answered
InFlight ==
    Cardinality({p \in 1..Len(log) : IsSend(log[p])})
      - Cardinality({p \in 1..Len(log) : log[p].ev = "recv"})

\* C6: at every moment of an unordered bulkWrite and of an unordered insertMany
\* the number of requests sent and not yet answered is at most the parallel
\* option, 8 when the option is unset; the requests in flight are those of the
\* workers suspended in the command executor
C6_InFlightAtMostParallel ==
    ~IsOrdered =>
      /\ InFlight <= OrElse(options.parallel, DefaultParallel)
      /\ InFlight = Cardinality({w \in Workers : pc[w] = "await"})

\* An unordered insertMany of three chunks on two workers has had a chunk
\* answered and has two requests in flight again
C6_Witness ==
    /\ method = "insertMany"
    /\ ~IsOrdered
    /\ options.parallel = Some(2)
    /\ Len(documents) = 3
    /\ ChunkSize = 1
    /\ DOMAIN delivered # {}
    /\ InFlight = 2

\* C7: in unordered bulkWrite, once an operation has been answered with a
\* transport-level error no operation is sent any more, and the run fails with
\* that error, not with an aggregated BulkWriteError
C7_TransportErrorAborts ==
    ~IsOrdered =>
      /\ \A p, q \in 1..Len(log) :
           (p < q /\ log[p].ev = "recv" /\ log[p].idx \in TransportOps) => ~IsSend(log[q])
      /\ (Settled /\ TransportOps # {}) =>
           main = "threw" /\ thrown[1].class # "BulkWriteError"

\* C8: in ordered bulkWrite an operation answered with a transport-level error
\* makes the run throw that very error, not a BulkWriteError, and no operation
\* with a greater index is sent
C8_OrderedTransportPropagates ==
    IsOrdered =>
      \A k \in TransportOps :
        /\ main = "threw"
        /\ thrown = Some(ThrownBy(delivered[k], k))
        /\ \A p \in 1..Len(log) : IsSend(log[p]) => log[p].idx <= k

\* An ordered run of three operations has thrown the transport failure of
\* operation 1
C8_Witness ==
    /\ IsOrdered
    /\ Len(operations) = 3
    /\ 1 \in DOMAIN delivered
    /\ delivered[1].kind = "network"
    /\ main = "threw"

\* The operations answered with a timeout
TimeoutOps == {k \in DOMAIN delivered : delivered[k].kind = "timeout"}

\* C9 as stated: a timeout aborts an ordered bulkWrite at once; in an unordered
\* bulkWrite it is recorded among the failed operations, the run is not aborted
\* by it (it ends with an aggregated BulkWriteError) and the worker goes on
C9_TimeoutRecordedInUnordered ==
    \A k \in TimeoutOps :
      /\ IsOrdered =>
           /\ main = "threw"
           /\ \A p \in 1..Len(log) : IsSend(log[p]) => log[p].idx <= k
      /\ ~IsOrdered =>
           /\ \E j \in 1..Len(failRaw) :
                failRaw[j] = delivered[k] /\ failCommands[j] = commands[k + 1]
           /\ \A w \in Workers : pc[w] # "threw"
           /\ Settled => (main = "threw" /\ thrown[1].class = "BulkWriteError")

\* C9 amended: a timeout aborts an ordered bulkWrite at once, the timeout error
\* propagating unwrapped with no later operation sent; in an unordered
\* bulkWrite a timeout is never recorded among the failed operations: the
\* worker that received it has thrown and sends nothing more, and the run fails
\* with the first rejection, a transport-class error, not with an aggregated
\* BulkWriteError
C9_TimeoutPropagates ==
    \A k \in TimeoutOps :
      /\ IsOrdered =>
           /\ main = "threw"
           /\ thrown = Some(ThrownBy(delivered[k], k))
           /\ \A p \in 1..Len(log) : IsSend(log[p]) => log[p].idx <= k
      /\ ~IsOrdered =>
           /\ \A j \in 1..Len(failRaw) : failRaw[j].kind # "timeout"
           /\ \E w \in Workers : pc[w] = "threw" /\ localI[w] = k
           /\ rejection # None
           /\ Settled =>
                /\ main = "threw"
                /\ thrown = rejection
                /\ thrown[1].class \in {"DataAPITimeout", "Error"}

\* An unordered run of three operations on two workers has failed after a
\* timeout of one of them
C9_Witness ==
    /\ ~IsOrdered
    /\ options.parallel = Some(2)
    /\ Len(operations) = 3
    /\ TimeoutOps # {}
    /\ main = "threw"
    /\ thrown[1].class = "DataAPITimeout"

\* C10: in both modes, whenever an answer that has been merged carries an
\* upserted id, upsertedIds holds that id under the operation's index in the
\* caller's list, and upsertedIds has no other entry
C10_UpsertedIdUnderOwnIndex ==
    /\ \A k \in DOMAIN delivered :
         CarriesUpsertedId(delivered[k]) =>
           /\ k \in DOMAIN results.upsertedIds
           /\ results.upsertedIds[k] = delivered[k].status[1].upsertedId[1]
    /\ \A k \in DOMAIN results.upsertedIds :
         /\ k \in DOMAIN delivered
         /\ CarriesUpsertedId(delivered[k])
         /\ results.upsertedIds[k] = delivered[k].status[1].upsertedId[1]

\* C11: once a bulkWrite run is over, every index of upsertedIds is the index of
\* an operation whose descriptor is replaceOne, updateOne or updateMany with
\* upsert true and whose answer carried an upserted id
C11_UpsertedIndexIsUpsertOp ==
    (method = "bulkWrite" /\ Settled) =>
      \A k \in DOMAIN results.upsertedIds :
        /\ k \in 0..(Len(operations) - 1)
        /\ operations[k + 1].name \in {"replaceOne", "updateOne", "updateMany"}
        /\ operations[k + 1].upsert = Some(TRUE)
        /\ k \in DOMAIN delivered
        /\ CarriesUpsertedId(delivered[k])

\* A run over an update without upsert that matched nothing and an update with
\* upsert has returned with one upserted id
C11_Witness ==
    /\ method = "bulkWrite"
    /\ main = "returned"
    /\ operations = <<Op("updateOne", 1, None), Op("updateOne", 1, Some(TRUE))>>
    /\ DOMAIN results.upsertedIds = {1}
    /\ results.matchedCount = 0

\* The chunks sent so far that hold the document at index d
ChunksHolding(d) ==
    LET sent == SentIdx
    IN {p \in 1..Len(sent) :
          /\ sent[p] <= d
          /\ d < sent[p] + Len(ChunkCommand(sent[p], IsOrdered).documents)}

\* What C12 states of the chunks sent so far: each is a run of 1 to chunkSize
\* consecutive documents and no document is in two of them
ChunksAreDisjointSlices ==
    LET sent == SentIdx IN
      /\ \A p \in 1..Len(sent) :
           LET chunk == ChunkCommand(sent[p], IsOrdered).documents IN
             /\ Len(chunk) \in 1..ChunkSize
             /\ \A k \in 1..Len(chunk) : Some(chunk[k]) = documents[sent[p] + k]
      /\ \A d \in 0..(Len(documents) - 1) : Cardinality(ChunksHolding(d)) <= 1

\* No error has stopped the run: an ordered run has returned, an unordered run
\* is over without a worker having thrown
RanToTheEnd ==
    IF IsOrdered THEN main = "returned" ELSE Settled /\ rejection = None

\* C12 as stated: insertMany sends chunks of 1 to chunkSize consecutive
\* documents, no document in two chunks; and when no error has stopped the run
\* every document is in exactly one sent chunk
C12_EveryDocumentInOneChunk ==
    (method = "insertMany" /\ main # "init") =>
      /\ ChunksAreDisjointSlices
      /\ RanToTheEnd =>
           \A d \in 0..(Len(documents) - 1) : Cardinality(ChunksHolding(d)) = 1

\* C12 amended: the same, every document being in exactly one sent chunk when no
\* error has stopped the run and, in unordered mode, parallel is at least 1
C12_EveryDocumentInOneChunkOfWorkers ==
    (method = "insertMany" /\ main # "init") =>
      /\ ChunksAreDisjointSlices
      /\ (RanToTheEnd /\ (IsOrdered \/ OrElse(options.parallel, DefaultParallel) >= 1)) =>
           \A d \in 0..(Len(documents) - 1) : Cardinality(ChunksHolding(d)) = 1

\* An unordered insertMany of three documents in chunks of two on two workers
\* has returned
C12_Witness ==
    /\ method = "insertMany"
    /\ ~IsOrdered
    /\ options.parallel = Some(2)
    /\ Len(documents) = 3
    /\ ChunkSize = 2
    /\ main = "returned"
    /\ SentIdx = <<0, 2>>
    /\ Len(insertedIds) = 3

\* The indices at which the chunks of the documents start
ChunkStarts == {d \in 0..(Len(documents) - 1) : d % ChunkSize = 0}

\* C13: a chunk of an ordered insertMany that fails with an insertion error
\* makes the run throw an InsertManyError with no later chunk sent; in an
\* unordered insertMany such a failure stops nothing: when the InsertManyError
\* is thrown every worker has ended and every chunk has been sent and answered,
\* and a run with a failed chunk and no transport error ends that way
C13_ChunkFailureStopsOrderedOnly ==
    method = "insertMany" =>
      /\ IsOrdered =>
           \A k \in FailedOps :
             /\ main = "threw"
             /\ thrown[1].class = "InsertManyError"
             /\ \A p \in 1..Len(log) : IsSend(log[p]) => log[p].idx <= k
      /\ (~IsOrdered /\ main = "threw" /\ thrown[1].class = "InsertManyError") =>
           /\ FailedOps # {}
           /\ \A w \in Workers : pc[w] = "done"
           /\ {SentIdx[p] : p \in 1..Len(SentIdx)} = ChunkStarts
           /\ DOMAIN delivered = ChunkStarts
      /\ (~IsOrdered /\ Settled /\ FailedOps # {} /\ TransportOps = {}) =>
           main = "threw" /\ thrown[1].class = "InsertManyError"

\* An unordered insertMany of three chunks on one worker, the second of which
\* failed with an insertion error, has thrown after the third
C13_Witness ==
    /\ method = "insertMany"
    /\ ~IsOrdered
    /\ options.parallel = Some(1)
    /\ ChunkSize = 1
    /\ Len(documents) = 3
    /\ FailedOps = {1}
    /\ main = "threw"
    /\ SentIdx = <<0, 1, 2>>

\* C14: deleteMany called with an empty filter has thrown an Error at once: no
\* command is ever sent, and no step of the call changes the collection
C14_EmptyFilterFailsBeforeSending ==
    /\ []((method = "deleteMany" /\ filter.keys = 0 /\ main # "init") =>
            /\ main = "threw"
            /\ thrown # None
            /\ thrown[1].class = "Error"
            /\ log = <<>>
            /\ numDeleted = 0)
    /\ [][(method = "deleteMany" /\ filter.keys = 0) => coll' = coll]_vars

\* deleteMany with an empty filter has thrown on a collection of three documents
C14_Witness ==
    /\ method = "deleteMany"
    /\ filter.keys = 0
    /\ main = "threw"
    /\ coll = Stored

\* ------------------------------------------------- properties of the cursor

\* The methods that consume the cursor
Consumers == {"next", "hasNext"} \cup Loops

\* This step is the caller calling a method of M on the cursor
Calling(M) == method = "find" /\ call.at # "fetching" /\ call'.method \in M

\* C15: a newly built cursor is UNINITIALIZED, not closed, holds an empty
\* buffer and has sent no request; and the first call of next, hasNext,
\* toArray, forEach or a for-await iteration on an UNINITIALIZED cursor sends
\* the first find command, one without a page state, and leaves the cursor
\* INITIALIZED while the fetch is under way.
C15_FirstConsumptionFetches ==
    /\ [](call = NoCall =>
            /\ cursor.state = UNINITIALIZED
            /\ ~closed(cursor)
            /\ bufferedCount(cursor) = 0
            /\ fetches = <<>>)
    /\ [][(Calling(Consumers) /\ cursor.state = UNINITIALIZED) =>
            /\ fetches = <<>>
            /\ fetches' = <<FindCommand(cursor)>>
            /\ fetches'[1].pageState = None
            /\ call'.at = "fetching"
            /\ cursor'.state = INITIALIZED]_vars

\* A forEach called on a cursor never used before is suspended in the first
\* fetch
C15_Witness ==
    /\ rewinds = 0
    /\ call.method = "forEach"
    /\ call.from = UNINITIALIZED
    /\ call.at = "fetching"
    /\ Len(fetches) = 1
    /\ cursor.state = INITIALIZED
    /\ Len(found) = MaxFound

\* The builders of the cursor
Mutators == {"filter", "sort", "limit", "skip", "project", "map"}

\* C16: filter(), sort(), limit(), skip(), project() and map() succeed only
\* while the cursor is UNINITIALIZED, changing nothing but filter, options and
\* mapping; once a fetch was sent, and also once the cursor is closed, each of
\* them throws CursorAlreadyInitializedError and leaves the cursor, so its
\* filter, options and mapping, as it was.
C16_MutatorsOnlyWhileUninitialized ==
    [][Calling(Mutators) =>
        IF cursor.state = UNINITIALIZED
        THEN /\ call'.at = "returned"
             /\ call'.error = None
             /\ [cursor' EXCEPT !.filter = cursor.filter, !.options = cursor.options,
                                !.mapping = cursor.mapping] = cursor
        ELSE /\ call'.at = "threw"
             /\ call'.error = Some("CursorAlreadyInitializedError")
             /\ cursor' = cursor]_vars

\* filter() has thrown on a cursor closed with a full page in its buffer
C16_Witness ==
    /\ call.method = "filter"
    /\ call.from = CLOSED
    /\ call.at = "threw"
    /\ call.error = Some("CursorAlreadyInitializedError")
    /\ closed(cursor)
    /\ bufferedCount(cursor) = MaxPage
    /\ cursor.filter = 0

C18_RewindRestartsTheQuery ==
    /\ [][(method = "find" /\ call.at # "fetching" /\ call'.method = "rewind") =>
            cursor' = [cursor EXCEPT !.buffer = <<>>, !.pageState = None,
                                     !.consumed = 0, !.state = UNINITIALIZED]]_vars
    /\ []((/\ rewinds > 0
            /\ call.method \in Loops
            /\ call.from = UNINITIALIZED
            /\ call.stop = 0
            /\ call.at = "returned") =>
              /\ fetches # <<>>
              /\ fetches[1] = FindCommand(rewind(cursor))
              /\ call.out = ResultSet(cursor))

\* After a rewind, toArray() has yielded every document of the collection,
\* mapped, in two pages or more
C18_Witness ==
    /\ rewinds = 1
    /\ call.method = "toArray"
    /\ call.from = UNINITIALIZED
    /\ call.at = "returned"
    /\ cursor.mapping = Some("ageToString")
    /\ Len(call.out) = MaxFound
    /\ call.out = ResultSet(cursor)
    /\ Len(fetches) >= 2

\* C19: the cursor is single-pass: when toArray(), forEach() or a for-await
\* loop has returned, the cursor is CLOSED; and a toArray(), forEach() or
\* for-await called next on the same cursor, without a rewind() in between,
\* returns without having yielded a document and without a find command
\* being sent, the cursor still being CLOSED.
C19_SinglePass ==
    /\ []((method = "find" /\ call.method \in Loops /\ call.at = "returned") =>
             closed(cursor))
    /\ [][(/\ method = "find"
            /\ call.method \in Loops
            /\ call.at = "returned"
            /\ call'.method \in Loops) =>
              /\ call'.at = "returned"
              /\ call'.out = <<>>
              /\ call'.error = None
              /\ fetches' = fetches
              /\ closed(cursor')]_vars

\* A forEach called on a cursor that has been read to its end, every document
\* of the collection consumed over two pages or more, has visited nothing
C19_Witness ==
    /\ rewinds = 0
    /\ call.method = "forEach"
    /\ call.from = CLOSED
    /\ call.at = "returned"
    /\ call.out = <<>>
    /\ closed(cursor)
    /\ bufferedCount(cursor) = 0
    /\ cursor.consumed = MaxFound
    /\ Len(fetches) >= 2

\* toArray(), forEach() with a consumer that returns nothing, or a for-await
\* loop without break was called on an UNINITIALIZED cursor without limit and
\* has returned
ConsumedInFull ==
    /\ method = "find"
    /\ call.method \in Loops
    /\ call.from = UNINITIALIZED
    /\ call.stop = 0
    /\ call.at = "returned"
    /\ cursor.options.limit = 0

\* The call has yielded every document matching the filter, once, mapped, and
\* has left the buffer empty and the cursor CLOSED
YieldedAllMatching ==
    LET m == Matching(cursor.filter)
    IN  /\ Len(call.out) = Len(m)
        /\ {call.out[k] : k \in 1..Len(call.out)}
             = {Mapped(cursor, m[k]) : k \in 1..Len(m)}
        /\ bufferedCount(cursor) = 0
        /\ closed(cursor)

\* C20 as stated: with limit = 0, a full consumption by toArray(), by forEach()
\* with a consumer that returns nothing or by for-await yields exactly the N
\* matching documents, each once, whatever the number of pages, and leaves
\* the buffer empty and the cursor CLOSED.
C20_FullConsumptionYieldsAllMatching == ConsumedInFull => YieldedAllMatching

\* C20, amended: the same on a cursor that has neither a sort nor a skip; a
\* sorted find is served in one page only and a skip leaves documents out.
C20_UnsortedFullConsumptionYieldsAll ==
    (ConsumedInFull /\ cursor.options.sort = None /\ cursor.options.skip = 0)
        => YieldedAllMatching

\* forEach() with a consumer that returns nothing has visited every document
\* of the collection, fetched in two pages or more
C20_Witness ==
    /\ ConsumedInFull
    /\ call.method = "forEach"
    /\ cursor.options.sort = None
    /\ cursor.options.skip = 0
    /\ Len(call.out) = MaxFound
    /\ Len(fetches) >= 2
    /\ YieldedAllMatching

\* toArray(), forEach() with a consumer that returns nothing, or a for-await
\* loop without break was called on an UNINITIALIZED cursor with a limit and
\* has returned
ConsumedUpToLimit ==
    /\ method = "find"
    /\ call.method \in Loops
    /\ call.from = UNINITIALIZED
    /\ call.stop = 0
    /\ call.at = "returned"
    /\ cursor.options.limit > 0

\* The cursor never holds or has yielded more than its limit
WithinLimit ==
    (method = "find" /\ cursor.options.limit > 0) =>
        cursor.consumed + bufferedCount(cursor) <= cursor.options.limit

\* The call has yielded min(limit, N) documents, N matching the filter
YieldedMinOfLimitAndMatching ==
    Len(call.out) = Min(cursor.options.limit, Len(Matching(cursor.filter)))

\* C21 as stated: with a limit L > 0 and N matching documents, however the
\* service splits them over pages, a full consumption yields exactly
\* min(L, N) documents, and in every state consumed + length(buffer) <= L.
C21_LimitYieldsMinOfLimitAndMatching ==
    /\ WithinLimit
    /\ (ConsumedUpToLimit => YieldedMinOfLimitAndMatching)

\* C21, amended: consumed + length(buffer) <= L in every state; and a full
\* consumption yields exactly min(L, N) documents on a cursor that has
\* neither a sort nor a skip (a sorted find is served in one page only, and a
\* skip leaves documents out).
C21_UnsortedLimitYieldsMin ==
    /\ WithinLimit
    /\ (/\ ConsumedUpToLimit
        /\ cursor.options.sort = None
        /\ cursor.options.skip = 0) => YieldedMinOfLimitAndMatching

\* toArray() with the largest limit has yielded that many documents of a
\* larger collection, fetched in two pages or more
C21_Witness ==
    /\ ConsumedUpToLimit
    /\ call.method = "toArray"
    /\ cursor.options.limit = MaxLimit
    /\ cursor.options.sort = None
    /\ cursor.options.skip = 0
    /\ Len(Matching(cursor.filter)) > MaxLimit
    /\ Len(call.out) = MaxLimit
    /\ Len(fetches) >= 2

\* hasNext() looks and does not take: a call sends at most one find command,
\* and only on an empty buffer; it never changes consumed, and the buffer only
\* by the page of its fetch; it answers whether the buffer, refreshed if it
\* fetched, holds a document; and once every document of the result set has
\* been consumed it answers false
HasNextPeeks ==
    /\ []((method = "find" /\ call.method = "hasNext") => call.fetched <= 1)
    /\ []((/\ method = "find"
            /\ call.method = "hasNext"
            /\ call.at = "returned"
            /\ call.from # CLOSED) => (call.has <=> bufferedCount(cursor) > 0))
    /\ []((/\ method = "find"
            /\ call.method = "hasNext"
            /\ call.at = "returned"
            /\ cursor.consumed = Len(ResultSet(cursor))) => ~call.has)
    /\ [][(Calling({"hasNext"}) /\ cursor.buffer = <<>>) =>
            /\ Len(fetches') <= Len(fetches) + 1
            /\ cursor'.buffer = <<>>
            /\ cursor'.consumed = cursor.consumed]_vars
    /\ [][(/\ method = "find"
            /\ call.method = "hasNext"
            /\ call.at = "fetching"
            /\ call'.method = "hasNext") =>
              /\ fetches' = fetches
              /\ cursor'.consumed = cursor.consumed]_vars

C24_MappingErrorClosesAndRethrows ==
    /\ [][(/\ Calling(Consumers \ {"hasNext"})
            /\ ~closed(cursor)
            /\ cursor.buffer # <<>>
            /\ MappingThrows(cursor)) =>
              /\ call'.at = "threw"
              /\ call'.error = Some(MappingError)
              /\ call'.out = <<>>
              /\ closed(cursor')]_vars
    /\ [][(/\ method = "find"
            /\ call.at = "fetching"
            /\ call.method # "hasNext"
            /\ MappingThrows(cursor)
            /\ faults' = faults) =>
              /\ call'.out = <<>>
              /\ \/ call'.at = "returned" /\ bufferedCount(cursor') = 0
                 \/ /\ call'.at = "threw"
                    /\ call'.error = Some(MappingError)
                    /\ closed(cursor')]_vars
    /\ []((method = "find" /\ call.at = "threw" /\ call.error = Some(MappingError)) =>
             closed(cursor))

\* toArray() on a new cursor whose mapping throws has fetched the first page
\* and has thrown the mapping's error, the cursor being closed
C24_Witness ==
    /\ call.method = "toArray"
    /\ call.from = UNINITIALIZED
    /\ call.at = "threw"
    /\ call.error = Some(MappingError)
    /\ call.fetched = 1
    /\ Len(found) = MaxFound
    /\ closed(cursor)

\* The errors a failed fetch gives: an error response, a timeout, a failure
\* of the transport
FetchErrors == {Some("DataAPIResponseError"), Some("DataAPITimeout"), Some("Error")}

\* C25: when the fetch of a consumption call fails, that call throws the
\* error of the fetch and the cursor is CLOSED when the caller receives it;
\* from then on, until a rewind(), the cursor stays CLOSED, no find command is
\* sent, and every consumption call returns without a document.
C25_FetchErrorClosesAndPropagates ==
    /\ [][(method = "find" /\ call.at = "fetching" /\ faults' = faults + 1) =>
              /\ call'.method = call.method
              /\ call'.at = "threw"
              /\ call'.error \in FetchErrors
              /\ call'.out = call.out
              /\ closed(cursor')
              /\ fetches' = fetches]_vars
    /\ []((method = "find" /\ call.at = "threw" /\ call.error \in FetchErrors) =>
             closed(cursor) /\ faults > 0)
    /\ [][(/\ method = "find"
            /\ faults > 0
            /\ closed(cursor)
            /\ rewinds' = rewinds) =>
              /\ closed(cursor')
              /\ fetches' = fetches
              /\ call'.method \in Consumers =>
                    call'.at = "returned" /\ call'.out = <<>>]_vars

\* The first fetch of the cursor failed; a toArray() called afterwards on the
\* closed cursor has returned nothing, the one find command still the only one,
\* though documents match
C25_Witness ==
    /\ faults = 1
    /\ rewinds = 0
    /\ call.method = "toArray"
    /\ call.from = CLOSED
    /\ call.at = "returned"
    /\ call.out = <<>>
    /\ Len(fetches) = 1
    /\ cursor.consumed = 0
    /\ bufferedCount(cursor) = 0
    /\ Len(Matching(cursor.filter)) > 0
    /\ closed(cursor)

\* C26: early termination closes the cursor and keeps what is buffered: a
\* for-await loop left by break at its first document, or a forEach whose
\* consumer returns false at its first document, yields that one document,
\* sends no further find command, leaves the cursor CLOSED, and leaves every
\* document behind the first in the buffer, those of the page the call fetched
\* included.
C26_EarlyTerminationKeepsBuffer ==
    /\ [][(/\ Calling({"forEach", "iterate"})
            /\ call'.stop = 1
            /\ ~closed(cursor)
            /\ cursor.buffer # <<>>
            /\ ~MappingThrows(cursor)) =>
              /\ call'.at = "returned"
              /\ call'.out = <<Mapped(cursor, Head(cursor.buffer))>>
              /\ cursor' = [cursor EXCEPT !.buffer = Tail(@), !.consumed = @ + 1,
                                          !.state = CLOSED]
              /\ fetches' = fetches]_vars
    /\ [][(/\ method = "find"
            /\ call.method \in {"forEach", "iterate"}
            /\ call.stop = 1
            /\ call.at = "fetching"
            /\ call'.at = "returned"
            /\ call'.out # <<>>) =>
              LET cmd == fetches[Len(fetches)]
                  s == Served(cmd)
                  o == IF cmd.pageState = None THEN 0 ELSE cmd.pageState[1]
              IN  /\ call'.out = <<Mapped(cursor, s[o + 1])>>
                  /\ cursor'.consumed = cursor.consumed + 1
                  /\ \E e \in (o + 1)..Len(s) :
                        /\ cursor'.buffer = SubSeq(s, o + 2, e)
                        /\ cursor'.pageState # None => cursor'.pageState = Some(e)
                  /\ closed(cursor')
                  /\ fetches' = fetches]_vars
    /\ []((/\ method = "find"
            /\ call.method \in {"forEach", "iterate"}
            /\ call.stop = 1
            /\ call.at = "returned") => closed(cursor) /\ Len(call.out) <= 1)

\* A for-await loop on a new cursor was left by break at the first document
\* of a full page: the cursor is CLOSED and holds the rest of the page
C26_Witness ==
    /\ call.method = "iterate"
    /\ call.stop = 1
    /\ call.from = UNINITIALIZED
    /\ call.at = "returned"
    /\ Len(call.out) = 1
    /\ Len(fetches) = 1
    /\ cursor.consumed = 1
    /\ bufferedCount(cursor) = MaxPage - 1
    /\ closed(cursor)

\* ------------------------------------------------- properties of clone()

\* This step is the caller making the clone
Cloning == method = "find" /\ cloned = None /\ cloned' # None

\* C27: clone() of a cursor in any state returns a cursor that is
\* UNINITIALIZED, not closed, with an empty buffer and the namespace, filter,
\* sort and projection of the original, which it leaves as it is; afterwards
\* no operation on the clone changes the original (its filter, buffer and
\* state included) and no operation on the original changes the clone.
C27_CloneIsIndependent ==
    /\ [][Cloning =>
            LET k == cloned'[1].cursor
            IN  /\ k.state = UNINITIALIZED
                /\ ~closed(k)
                /\ k.buffer = <<>>
                /\ k.namespace = cursor.namespace
                /\ k.filter = cursor.filter
                /\ k.options.sort = cursor.options.sort
                /\ k.options.projection = cursor.options.projection
                /\ cursor' = cursor]_vars
    /\ [][(method = "find" /\ cloned # None /\ cloned' # cloned) =>
            /\ cursor' = cursor
            /\ call' = call
            /\ fetches' = fetches]_vars
    /\ [][(/\ method = "find"
            /\ cloned # None
            /\ <<cursor, call, fetches>>' # <<cursor, call, fetches>>) =>
              cloned' = cloned]_vars

\* The clone of a closed cursor that holds documents was given another filter
\* and was consumed by toArray(); the original still holds its documents and
\* its filter
C27_Witness ==
    /\ call.method = "clone"
    /\ call.from = CLOSED
    /\ closed(cursor)
    /\ bufferedCount(cursor) > 0
    /\ cursor.filter = 0
    /\ cloned # None
    /\ cloned[1].cursor.filter = 1
    /\ cloned[1].call.method = "toArray"
    /\ cloned[1].call.at = "returned"
    /\ Len(cloned[1].call.out) = 1
    /\ closed(cloned[1].cursor)

\* The clone has been consumed from its start to its end by toArray()
CloneConsumedInFull ==
    /\ method = "find"
    /\ cloned # None
    /\ cloned[1].call.method = "toArray"
    /\ cloned[1].call.from = UNINITIALIZED
    /\ cloned[1].call.at = "returned"

\* The raw documents of the query of cursor c, as the service serves them
RawResultSet(c) == ResultSet([c EXCEPT !.mapping = None])

\* C28 as stated: the clone of a cursor that has a mapping function carries
\* the same mapping, and so yields mapped documents.
C28_CloneCarriesMapping ==
    /\ [][(Cloning /\ cursor.mapping # None) =>
            cloned'[1].cursor.mapping = cursor.mapping]_vars
    /\ []((CloneConsumedInFull /\ cursor.mapping = Some("ageToString")) =>
            cloned[1].call.out = [k \in 1..Len(RawResultSet(cloned[1].cursor)) |->
                                    ageToString(RawResultSet(cloned[1].cursor)[k])])

\* C28, amended: the clone of a cursor that has a mapping function is a new
\* cursor with copies of the filter and of all the options of the original
\* and without a mapping; a toArray() that consumes it in full yields the
\* result set of that filter and those options, unmapped.
C28_CloneCarriesFilterAndOptionsOnly ==
    /\ [][(Cloning /\ cursor.mapping # None) =>
            cloned'[1].cursor =
              [NewFindCursor(cursor.filter, cursor.options) EXCEPT
                 !.namespace = cursor.namespace]]_vars
    /\ []((CloneConsumedInFull /\ cursor.mapping # None) =>
            cloned[1].call.out = RawResultSet(cloned[1].cursor))

\* A cursor with a sort, a projection and the mapping ageToString was cloned
\* while it held documents; the clone has the sort and the projection, and
\* its toArray() has yielded raw documents
C28_Witness ==
    /\ CloneConsumedInFull
    /\ call.method = "clone"
    /\ call.from = INITIALIZED
    /\ cursor.mapping = Some("ageToString")
    /\ cursor.options.sort # None
    /\ cursor.options.projection # None
    /\ bufferedCount(cursor) > 0
    /\ cloned[1].cursor.options = cursor.options
    /\ cloned[1].cursor.filter = cursor.filter
    /\ cloned[1].call.out # <<>>
    /\ \A k \in 1..Len(cloned[1].call.out) : cloned[1].call.out[k] > 0

\* C29: clone() does not copy the mapping function: the clone of a cursor,
\* whether map() was called on it or not, has no mapping, and next() and
\* toArray() on the clone yield the raw documents: a toArray() that consumes
\* the clone in full yields the raw result set of the clone's query.
C29_CloneHasNoMapping ==
    /\ [][Cloning => cloned'[1].cursor.mapping = None]_vars
    /\ [](cloned # None => cloned[1].cursor.mapping = None)
    /\ [](CloneConsumedInFull =>
            /\ cloned[1].call.out = RawResultSet(cloned[1].cursor)
            /\ \A k \in 1..Len(cloned[1].call.out) :
                  cloned[1].call.out[k] \in {found[j] : j \in 1..Len(found)})

\* A closed cursor with the mapping ageToString yields nothing; its clone has
\* yielded every document of the collection, raw, in two pages or more
C29_Witness ==
    /\ CloneConsumedInFull
    /\ call.method = "clone"
    /\ call.from = CLOSED
    /\ cursor.mapping = Some("ageToString")
    /\ cursor.consumed = 0
    /\ cloned[1].cursor.options.sort = None
    /\ Len(cloned[1].fetches) >= 2
    /\ Len(cloned[1].call.out) = MaxFound
    /\ cloned[1].call.out = found

\* ------------------------------- properties of readBufferedDocuments()

\* C30: readBufferedDocuments(max), in any state of the cursor, sends no find
\* command and changes neither pageState nor the state of the cursor nor
\* anything of it but the buffer; it takes the first min(max, bufferedCount)
\* documents out of the buffer, all of them when max is omitted, and returns
\* them raw and in the order of the buffer; the rest stays buffered.
C30_ReadBufferedDocumentsDrainsOnly ==
    [][Calling({"readBufferedDocuments"}) =>
         LET n == IF call'.max = None THEN bufferedCount(cursor)
                  ELSE Min(call'.max[1], bufferedCount(cursor))
         IN  /\ call'.at = "returned"
             /\ call'.error = None
             /\ call'.out = SubSeq(cursor.buffer, 1, n)
             /\ cursor' = [cursor EXCEPT !.buffer = SubSeq(@, n + 1, Len(@))]
             /\ fetches' = fetches]_vars

\* readBufferedDocuments(1) on a cursor with the mapping ageToString and a
\* full first page has returned the first document, raw; the rest of the page
\* is buffered and a next page is still announced
C30_Witness ==
    /\ call.method = "readBufferedDocuments"
    /\ call.max = Some(1)
    /\ call.from = INITIALIZED
    /\ Len(found) = MaxFound
    /\ call.out = <<found[1]>>
    /\ cursor.mapping = Some("ageToString")
    /\ cursor.state = INITIALIZED
    /\ cursor.pageState # None
    /\ bufferedCount(cursor) = MaxPage - 1
    /\ Len(fetches) = 1

\* ------------------------------------------ properties of the path extractor

\* The document of the fan-out example: {items: [{tag: 'a'}, {tag: 'b'}]}
FanOutDoc == Items(Arr(<<Tag(Str("a")), Tag(Str("b"))>>))

\* This step applies the extractor to a document
Extracting == method = "extract" /\ Len(extractor'.args) = Len(extractor.args) + 1

\* The document this step applies the extractor to
Extracted == extractor'.args[Len(extractor'.args)]

\* The values this step adds to the array of the extractor
Added ==
    SubSeq(extractor'.values, Len(extractor.values) + 1, Len(extractor'.values))

\* C31: the path extractor resolves a dotted path with fan-out. Applied to a
\* document whose items is an array, the path items.<n>.tag, <n> a
\* non-negative integer, finds what the path tag finds in element n alone
\* (nothing when there is no element n), and the path items.tag finds what
\* the path tag finds in each element, one element after the other; for
\* {items: [{tag: 'a'}, {tag: 'b'}]} a new extractor returns ['a', 'b'] for
\* items.tag and ['a'] for items.0.tag.
C31_FanOutAndIndex ==
    /\ [][(Extracting /\ Extracted[1] = "object" /\ IsArray(Get(Extracted, "items"))) =>
            LET a == Get(Extracted, "items")[2]
                path == extractor.path
            IN  /\ (Len(path) = 3 /\ path[1] = "items" /\ path[3] = "tag"
                       /\ parseInt(path[2]) # None) =>
                      Added = IF parseInt(path[2])[1] < Len(a)
                              THEN extract(<<"tag">>, 0, a[parseInt(path[2])[1] + 1])
                              ELSE <<>>
                /\ path = <<"items", "tag">> =>
                      Added = Flat([k \in 1..Len(a) |-> extract(<<"tag">>, 0, a[k])])]_vars
    /\ []((method = "extract" /\ extractor.args = <<FanOutDoc>>) =>
            /\ extractor.path = <<"items", "tag">> =>
                  extractor.returned = <<Str("a"), Str("b")>>
            /\ extractor.path = <<"items", "0", "tag">> =>
                  extractor.returned = <<Str("a")>>)

\* A new extractor of the path items.tag, applied to
\* {items: [{tag: 'a'}, {tag: 'b'}]}, has returned ['a', 'b']
C31_Witness ==
    /\ method = "extract"
    /\ extractor.path = <<"items", "tag">>
    /\ extractor.args = <<FanOutDoc>>
    /\ extractor.returned = <<Str("a"), Str("b")>>

\* The terminal value collected as the claim has it: an array gives its
\* elements, any other value itself
Collected(terminal) == IF IsArray(terminal) THEN terminal[2] ELSE <<terminal>>

\* C36: every non-null terminal value the extractor reaches at the end of the
\* path is collected, whatever its value: applied to a document whose items
\* is not null, the path items adds items itself, or the elements of items
\* when it is an array, as they are; and the path items.<n>.tag, where
\* element n of the array items is an object whose tag is not null, adds
\* that tag, or the elements of that tag when it is an array.
C36_TerminalValuesCollected ==
    [][(Extracting /\ Extracted[1] = "object") =>
         LET v == Get(Extracted, "items")
             path == extractor.path
         IN  /\ (path = <<"items">> /\ v \notin {Null, Undefined}) =>
                   Added = Collected(v)
             /\ (/\ Len(path) = 3
                 /\ path[1] = "items"
                 /\ path[3] = "tag"
                 /\ parseInt(path[2]) # None
                 /\ IsArray(v)
                 /\ parseInt(path[2])[1] < Len(v[2])) =>
                   LET el == v[2][parseInt(path[2])[1] + 1]
                   IN  (el[1] = "object" /\ Get(el, "tag") \notin {Null, Undefined}) =>
                         Added = Collected(Get(el, "tag"))]_vars

\* C37: a branch of the extractor adds no value when an explicit array index
\* is out of range, when an intermediate value is null or absent, or when an
\* intermediate value is a scalar with path segments still left, and the
\* other branches of a fan-out are not affected: with the path items.tag over
\* an array, the elements that are null or scalars add nothing and every
\* other element adds what it adds alone.
C37_DeadBranchesAddNothing ==
    [][(Extracting /\ Extracted[1] = "object") =>
         LET v == Get(Extracted, "items")
             path == extractor.path
             dead(el) == el[1] \in {"null", "undefined", "number", "string"}
         IN  /\ (/\ Len(path) >= 2
                 /\ path[1] = "items"
                 /\ parseInt(path[2]) # None
                 /\ IsArray(v)
                 /\ parseInt(path[2])[1] >= Len(v[2])) => Added = <<>>
             /\ (Len(path) >= 2 /\ path[1] = "items" /\ dead(v)) => Added = <<>>
             /\ (path[1] = "tag" /\ Get(Extracted, "tag") = Undefined) => Added = <<>>
             /\ (path = <<"items", "tag", "tag">> /\ IsArray(v)) =>
                   \A k \in 1..Len(v[2]) :
                     (v[2][k][1] = "object" /\ dead(Get(v[2][k], "tag"))) =>
                       extract(<<"tag", "tag">>, 0, v[2][k]) = <<>>
             /\ (path = <<"items", "tag">> /\ IsArray(v)) =>
                   Added = Flat([k \in 1..Len(v[2]) |->
                                   IF dead(v[2][k]) THEN <<>>
                                   ELSE extract(<<"tag">>, 0, v[2][k])])]_vars

\* The path items.tag over {items: [null, {tag: 'a'}]}: the null element has
\* added nothing and the other one its tag
C37_Witness ==
    /\ method = "extract"
    /\ extractor.path = <<"items", "tag">>
    /\ extractor.args = <<Items(Arr(<<Null, Tag(Str("a"))>>))>>
    /\ extractor.returned = <<Str("a")>>

\* C39: what the path extractor returns for a document depends only on the
\* path and on that document: it is what the path finds in the document it
\* was last applied to, with none of the values of the documents before it.
C39_ReturnsValuesOfThisDocumentOnly ==
    (method = "extract" /\ extractor.args # <<>>) =>
        extractor.returned =
            extract(extractor.path, 0, extractor.args[Len(extractor.args)])

\* ------------------------------------------------- properties of distinct

\* The values the path of distinct finds in the documents the cursor yields,
\* document after document
Produced ==
    Flat([k \in 1..Len(distinct.docs) |-> extract(distinct.key, 0, distinct.docs[k])])

\* Two values are equal: objects of the same structure, or the same scalar
SameValue(a, b) ==
    IF TypeofObject(a) /\ TypeofObject(b) THEN Canon(a) = Canon(b) ELSE a = b

\* Where a value first appears among the values produced
FirstAppearance(v) ==
    CHOOSE k \in 1..Len(Produced) :
      /\ SameValue(Produced[k], v)
      /\ \A j \in 1..(k - 1) : ~SameValue(Produced[j], v)

\* C38: distinct(key) returns a list with no two equal entries (scalars by
\* equality, objects by structure) that holds every value the path extractor
\* finds in a document the cursor yields, in the order of first appearance.
C38_DistinctValuesInOrderOfFirstAppearance ==
    distinct.at = "returned" =>
        LET ret == distinct.ret
        IN  /\ \A m, n \in 1..Len(ret) : m < n => ~SameValue(ret[m], ret[n])
            /\ \A k \in 1..Len(Produced) :
                 \E m \in 1..Len(ret) : SameValue(ret[m], Produced[k])
            /\ \A m \in 1..Len(ret) : \E k \in 1..Len(Produced) : Produced[k] = ret[m]
            /\ \A m, n \in 1..Len(ret) :
                 m < n => FirstAppearance(ret[m]) < FirstAppearance(ret[n])

\* ----------------------------------------------- properties of termination

\* C32: every insertMany (and bulkWrite), ordered or unordered, with any
\* chunkSize and parallel its options accept, completes, returning or
\* throwing, when every request is answered.
C32_EveryInvocationCompletes == <>(main \in {"returned", "threw"})

\* ------------------------------------ properties of the unordered bulkWrite

\* The operations whose answer carried a status
WithStatus == {k \in DOMAIN delivered : delivered[k].status # None}

\* The statuses of the operations k, k + 1, ... merged into result one after
\* the other, in the order of the operations
RECURSIVE MergedInIndexOrder(_, _)
MergedInIndexOrder(result, k) ==
    IF k >= Len(operations) THEN result
    ELSE MergedInIndexOrder(
           IF k \in WithStatus
           THEN addToBulkWriteResult(result, delivered[k].status[1], k)
           ELSE result,
           k + 1)

\* C33: in an unordered bulkWrite a response is merged into the shared
\* accumulator in one step, all its counters, its upserted id and its raw
\* response together: whenever a worker is suspended the accumulator holds
\* every response received so far merged in full, no increment is lost, and
\* the counters and upserted ids are those of merging the same responses in
\* the order of the operations, whatever the order in which the workers
\* received them.
C33_MergeIsAtomic ==
    (method = "bulkWrite" /\ ~IsOrdered /\ main # "init") =>
        LET merged == MergedInIndexOrder(NewBulkWriteResult, 0)
        IN  /\ \A c \in Counters : results[c] = merged[c]
            /\ results.upsertedIds = merged.upsertedIds
            /\ Len(results.raw) = Cardinality(WithStatus)
            /\ \A k \in WithStatus :
                 \E j \in 1..Len(results.raw) : results.raw[j] = delivered[k].status[1]

\* An unordered bulkWrite has returned whose operation 1 was answered before
\* its operation 0, both answers counting
C33_Witness ==
    /\ method = "bulkWrite"
    /\ ~IsOrdered
    /\ main = "returned"
    /\ \E p, q \in 1..Len(log) :
         /\ p < q
         /\ log[p] = Event("recv", 1)
         /\ log[q] = Event("recv", 0)
    /\ results.insertedCount = 1
    /\ results.deletedCount = 1

\* The operations sent so far, in the order of their sending
Sent == SelectSeq(log, LAMBDA e : e.ev = "send")

\* C40: an unordered bulkWrite starts its operations in increasing index
\* order. A worker takes the next index and sends its command in one step:
\* every index taken has been sent, the k-th command sent is the one of
\* operation k - 1, so that operation j + 1 is never sent before operation j;
\* the answers may arrive in any order.
C40_SentInIndexOrder ==
    (method = "bulkWrite" /\ ~IsOrdered /\ main # "init") =>
        /\ Len(Sent) = masterIndex
        /\ \A k \in 1..Len(Sent) : Sent[k].idx = k - 1
        /\ \A w \in Workers : pc[w] = "await" =>
             \E k \in 1..Len(Sent) : Sent[k].idx = localI[w]

\* Three operations on two workers: all three were sent, and operation 1 was
\* answered while operation 0 was still in flight
C40_Witness ==
    /\ method = "bulkWrite"
    /\ ~IsOrdered
    /\ Len(operations) = 3
    /\ options.parallel = Some(2)
    /\ Len(Sent) = 3
    /\ 1 \in DOMAIN delivered
    /\ 0 \notin DOMAIN delivered

\* ------------------------------------------- properties of the fetching

\* This step sends a find command
Fetching == method = "find" /\ Len(fetches') = Len(fetches) + 1

\* This step is a call resumed with a page, which neither the fetch nor the
\* mapping function has failed on
PageArrives == method = "find" /\ call.at = "fetching" /\ call' # call /\ call'.at # "threw"

\* The documents the call yields in this step
YieldedNow == SubSeq(call'.out, Len(call.out) + 1, Len(call'.out))

\* The position in the documents served at which the page asked for begins
AskedFrom ==
    LET cmd == fetches[Len(fetches)]
    IN  IF cmd.pageState = None THEN 0 ELSE cmd.pageState[1]

\* The page that arrives in this step has gone into the buffer as the
\* documents served from AskedFrom up to position e: the call has yielded
\* the first of them and the buffer holds the others
BufferIsPageUpTo(e) ==
    LET srv == Served(fetches[Len(fetches)])
        y == Len(YieldedNow)
    IN  /\ AskedFrom + y <= e
        /\ YieldedNow = [k \in 1..y |-> Mapped(cursor, srv[AskedFrom + k])]
        /\ cursor'.buffer = SubSeq(srv, AskedFrom + y + 1, e)

\* A find command is sent only by a consumption method that finds the buffer
\* empty, one at a time, and every one after the first of a query carries the
\* page state of the response before it: none is sent after a response
\* without a next page state
FetchesLazily ==
    /\ [][Fetching =>
            /\ call'.method \in Consumers
            /\ call'.at = "fetching"
            /\ cursor'.buffer = <<>>
            /\ fetches' = Append(fetches, FindCommand(cursor'))]_vars
    /\ [][(method = "find" /\ fetches' # fetches) => (Fetching \/ fetches' = <<>>)]_vars
    /\ [](\A k \in 2..Len(fetches) : fetches[k].pageState # None)

\* C34 as stated: the cursor fetches lazily, one page at a time, only when
\* the buffer is empty and a document is asked for, and no more after a
\* response without a next page state; and each successful fetch replaces
\* the buffer with exactly the returned page, which for a response without a
\* next page state is all that was left to serve.
C34_FetchReplacesBufferWithPage ==
    /\ FetchesLazily
    /\ [][PageArrives =>
            BufferIsPageUpTo(IF cursor'.pageState # None THEN cursor'.pageState[1]
                             ELSE Len(Served(fetches[Len(fetches)])))]_vars

\* C34, amended: the cursor fetches lazily, one page at a time, only when
\* the buffer is empty and a document is asked for, and no more after a
\* response without a next page state; and each successful fetch replaces
\* the buffer with the returned page, or, on a cursor with a limit, with as
\* many of its first documents as the limit leaves room for, after which no
\* further fetch is sent either.
C34_FetchReplacesBufferWithPageUpToLimit ==
    /\ FetchesLazily
    /\ [][PageArrives =>
            LET left == Len(Served(fetches[Len(fetches)]))
                room == AskedFrom + cursor.options.limit - cursor.consumed
            IN  BufferIsPageUpTo(IF cursor'.pageState # None THEN cursor'.pageState[1]
                                 ELSE IF cursor.options.limit > 0 THEN Min(left, room)
                                 ELSE left)]_vars

\* The next() after a full first page has returned: it has sent the second
\* find command, the one that carries the page state of the first page
C34_Witness ==
    /\ method = "find"
    /\ call.method = "next"
    /\ call.at = "returned"
    /\ cursor.consumed = MaxPage + 1
    /\ Len(fetches) = 2
    /\ fetches[2].pageState = Some(MaxPage)
    /\ call.fetched = 1

\* C35: the documents a cursor yields are the documents of the pages the
\* service returned, page after page and each page in the order the service
\* returned it, up to the limit: what a consumption call has yielded are the
\* documents the service serves at the positions that follow those yielded
\* before the call, mapped, and the buffer of an open cursor holds the ones
\* that come next; nothing is reordered, repeated or dropped.
C35_YieldsInServiceOrder ==
    (method = "find" /\ call.method \in Consumers) =>
        LET srv == Served(FindCommand(cursor))
            n == Len(call.out)
            first == cursor.consumed - n
        IN  /\ first >= 0
            /\ cursor.consumed <= Len(srv)
            /\ call.out = [k \in 1..n |-> Mapped(cursor, srv[first + k])]
            /\ ~closed(cursor) =>
                 /\ cursor.consumed + Len(cursor.buffer) <= Len(srv)
                 /\ cursor.buffer =
                      SubSeq(srv, cursor.consumed + 1, cursor.consumed + Len(cursor.buffer))

\* A mapped forEach has run over a whole collection that the service holds in
\* an order that is not the sorted one, in two pages or more
C35_Witness ==
    /\ method = "find"
    /\ call.method = "forEach"
    /\ call.at = "returned"
    /\ call.fetched >= 2
    /\ Len(found) = MaxFound
    /\ cursor.mapping # None
    /\ cursor.options.sort = None
    /\ call.out = [k \in 1..MaxFound |-> ageToString(found[k])]
    /\ found[1] > found[MaxFound]

====
